---- MODULE Spec2Model ----
(***************************************************************************)
(* Model of the lost-item assistant of Totsar/backend                      *)
(* (src/core/ai_assistant.py and its callers).                             *)
(*                                                                         *)
(* Representation choices                                                  *)
(*  - A text (str) is a sequence of characters.  Titles, queries and the   *)
(*    lines of an item text are only ever compared whole, never cut, and   *)
(*    are written as one element each.                                     *)
(*  - An embedding vector is a sequence of integers.  Item.embedding is a  *)
(*    nullable JSON field; the code only ever tests it with                *)
(*    `not item.embedding`, which is true for None and for [], so both are *)
(*    written <<>> here.                                                   *)
(*  - A similarity score is an exact rational [num, den] with den > 0.     *)
(*    The vectors used have integer magnitudes, so math.sqrt is exact on   *)
(*    them and the float quotient is the rounding of this rational.        *)
(***************************************************************************)
EXTENDS Integers, Sequences, FiniteSets, TLC

VARIABLES
    api_key,      \* settings.OPENAI_API_KEY, a text
    max_items,    \* settings.ASSISTANT_MAX_ITEMS_TO_EMBED_PER_REQUEST
    items,        \* the Item table, in primary-key order
    last,         \* what the last operation did and returned
    calls,        \* clients built and provider calls made by the last
                  \* operation, in order
    arg,          \* input of the function or request under test
    ret,          \* its output: the value returned, or the response and the
                  \* frames sent so far
    requests,     \* the requests being handled: for each, the statement it
                  \* will execute next and its local variables
    lock,         \* the request holding the row lock taken by
                  \* select_for_update(), 0 when the row is free
    comment,      \* the Comment row under report
    reports,      \* the CommentReport table: the number of rows of each user
    max_attempts, \* settings.REGISTRATION_OTP_MAX_ATTEMPTS
    otp_record,   \* the EmailOTP row of the registering email
    users         \* the User table, in insertion order

assistantVars == <<api_key, max_items, items, last, calls, arg, ret>>
commentVars == <<comment, reports>>
registerVars == <<max_attempts, otp_record, users>>

\* the tables and requests of the site outside the assistant
siteVars == <<requests, lock, commentVars, registerVars>>

vars == <<assistantVars, siteVars>>

\* no request is being handled and the other tables are empty
SiteIdle ==
    /\ requests = <<>>
    /\ lock = 0
    /\ comment = <<>>
    /\ reports = <<>>
    /\ max_attempts = 0
    /\ otp_record = <<>>
    /\ users = <<>>

(***************************************************************************)
(* Bounds of the model                                                     *)
(***************************************************************************)
MaxItems == 3
MaxCap == 2
MaxRawLen == 2
MaxRankItems == 12
MaxPickLen == 7
MaxPickCandidates == 6
MaxCoord == 4
MaxMsgLen == 201
MaxStoreItems == 2
MaxQueries == 2
MaxUsers == 8
MaxAttempts == 2
MaxRegisters == 3

(***************************************************************************)
(* Program constants                                                       *)
(***************************************************************************)
TOP_CANDIDATES == 10
MAX_PICKED == 5

(***************************************************************************)
(* Generic sequence helpers                                                *)
(***************************************************************************)
Range(s) == {s[i] : i \in 1..Len(s)}

Take(s, n) == IF n >= Len(s) THEN s ELSE SubSeq(s, 1, n)

Min(a, b) == IF a <= b THEN a ELSE b

RECURSIVE SeqsUpTo(_, _)
SeqsUpTo(S, n) ==
    IF n = 0 THEN {<<>>}
    ELSE LET shorter == SeqsUpTo(S, n - 1)
         IN shorter \cup {Append(s, x) : s \in {t \in shorter : Len(t) = n - 1}, x \in S}

RECURSIVE SumTo(_, _)
SumTo(f, n) == IF n = 0 THEN 0 ELSE f[n] + SumTo(f, n - 1)

(***************************************************************************)
(* Texts: str.strip()                                                      *)
(***************************************************************************)
Whitespace == {" ", "\n", "\t"}

RECURSIVE LStrip(_)
LStrip(s) ==
    IF s # <<>> /\ Head(s) \in Whitespace THEN LStrip(Tail(s)) ELSE s

RECURSIVE RStrip(_)
RStrip(s) ==
    IF s # <<>> /\ s[Len(s)] \in Whitespace
    THEN RStrip(SubSeq(s, 1, Len(s) - 1))
    ELSE s

Strip(s) == RStrip(LStrip(s))

HasOpenaiConfigNoStrip(key) == key # <<>>

\* _has_openai_config: bool(settings.OPENAI_API_KEY.strip())
HasOpenaiConfig(key) == Strip(key) # <<>>

(***************************************************************************)
(* Similarity scores: exact rationals                                      *)
(***************************************************************************)
MinusOne == [num |-> -1, den |-> 1]

ScoreEq(x, y) == x.num * y.den = y.num * x.den

ScoreLess(x, y) == x.num * y.den < y.num * x.den

\* math.sqrt on the squared magnitudes that occur here (perfect squares)
Sqrt(n) == CHOOSE r \in 0..n : r * r = n

CosineNoNormCheck(vec_a, vec_b) ==
    IF vec_a = <<>> \/ vec_b = <<>> \/ Len(vec_a) # Len(vec_b)
    THEN MinusOne
    ELSE LET dot_product == SumTo([i \in 1..Len(vec_a) |-> vec_a[i] * vec_b[i]], Len(vec_a))
             norm_a == Sqrt(SumTo([i \in 1..Len(vec_a) |-> vec_a[i] * vec_a[i]], Len(vec_a)))
             norm_b == Sqrt(SumTo([i \in 1..Len(vec_b) |-> vec_b[i] * vec_b[i]], Len(vec_b)))
         IN IF norm_a = 0 \/ norm_b = 0
            THEN [num |-> 0, den |-> 1]
            ELSE [num |-> dot_product, den |-> norm_a * norm_b]

\* _cosine_similarity
CosineSimilarity(vec_a, vec_b) ==
    IF vec_a = <<>> \/ vec_b = <<>> \/ Len(vec_a) # Len(vec_b)
    THEN MinusOne
    ELSE LET dot_product == SumTo([i \in 1..Len(vec_a) |-> vec_a[i] * vec_b[i]], Len(vec_a))
             norm_a == Sqrt(SumTo([i \in 1..Len(vec_a) |-> vec_a[i] * vec_a[i]], Len(vec_a)))
             norm_b == Sqrt(SumTo([i \in 1..Len(vec_b) |-> vec_b[i] * vec_b[i]], Len(vec_b)))
         IN IF norm_a = 0 \/ norm_b = 0
            THEN MinusOne
            ELSE [num |-> dot_product, den |-> norm_a * norm_b]

\* round(score, 4): the nearest multiple of 1/10000, ties to the even one
RoundScore(score) ==
    LET scaled == score.num * 10000
        q == scaled \div score.den
        r == scaled % score.den
    IN [num |-> IF 2 * r > score.den \/ (2 * r = score.den /\ q % 2 = 1) THEN q + 1 ELSE q,
        den |-> 10000]

(***************************************************************************)
(* The embedding provider: a fixed function from text to vector            *)
(***************************************************************************)
Titles == {"wallet", "keys", "phone"}

\* ", ".join(names)
RECURSIVE JoinTags(_)
JoinTags(names) ==
    IF names = <<>> THEN <<>>
    ELSE IF Len(names) = 1 THEN names
    ELSE <<Head(names), ",", " ">> \o JoinTags(Tail(names))

\* _build_item_text
BuildItemText(item) ==
    <<"title: ", item.title, "\n",
      "description: ", item.description, "\n",
      "location: ", item.location, "\n",
      "tags: ">> \o JoinTags(item.tags)

QueryTexts == {<<"wallet">>, <<"black", " ", "phone">>, <<"?">>, <<"x">>}

\* the vector the embedding model returns for one input text
EmbedVector(text) ==
    CASE text = <<"wallet">> -> <<1, 0>>
      [] text = <<"black", " ", "phone">> -> <<4, 3>>
      [] text = <<"?">> -> <<0, 0>>
      [] text = <<"x">> -> <<1>>
      [] Len(text) > 11 -> <<-3, 4>>
      [] Len(text) > 1 /\ text[2] = "wallet" -> <<1, 0>>
      [] Len(text) > 1 /\ text[2] = "keys" -> <<0, 1>>
      [] Len(text) > 1 /\ text[2] = "phone" -> <<3, 4>>
      [] OTHER -> <<0, -1>>

\* _embed_texts on a successful call: one vector per text, in order
EmbedTexts(texts) == [i \in 1..Len(texts) |-> EmbedVector(texts[i])]

(***************************************************************************)
(* Exceptions, and what the provider library does during one step          *)
(***************************************************************************)
\* an exception: its class and str(exc)
Exc(cls, msg) == [cls |-> cls, msg |-> msg]

NoExc == Exc("", <<>>)

\* the classes for which isinstance(exc, RuntimeError) holds
RuntimeErrorClasses == {"RuntimeError", "NotImplementedError", "RecursionError"}

IsRuntimeError(cls) == cls \in RuntimeErrorClasses

\* one step (build a client, make one call): ctor is what OpenAI(...) raises
\* when first called and call what the API call raises, NoExc for nothing
Provider(ctor, call) == [ctor |-> ctor, call |-> call]

ProviderOk == Provider(NoExc, NoExc)

ClientCall(trust_env) == [kind |-> "client", trust_env |-> trust_env]
EmbedCall(n) == [kind |-> "embed", n |-> n]
ChatCall(n) == [kind |-> "chat", n |-> n]

ClientResult(status, exc, made) == [status |-> status, exc |-> exc, calls |-> made]

\* _get_openai_client: one construction, with the default transport
GetOpenaiClient(ctor) ==
    IF ctor = NoExc THEN ClientResult("ok", NoExc, <<ClientCall(TRUE)>>)
    ELSE ClientResult("raise", ctor, <<ClientCall(TRUE)>>)

EmbedResult(status, exc, embeddings, made) ==
    [status |-> status, exc |-> exc, embeddings |-> embeddings, calls |-> made]

EmbedTextsCallRetry(texts, provider) ==
    LET client == GetOpenaiClient(provider.ctor)
        made == client.calls \o <<EmbedCall(Len(texts))>>
    IN IF client.status = "raise" THEN EmbedResult("raise", client.exc, <<>>, client.calls)
       ELSE IF provider.call # NoExc
       THEN EmbedResult("raise", provider.call, <<>>, made \o <<EmbedCall(Len(texts))>>)
       ELSE EmbedResult("ok", NoExc, EmbedTexts(texts), made)

\* _embed_texts
EmbedTextsCall(texts, provider) ==
    LET client == GetOpenaiClient(provider.ctor)
        made == client.calls \o <<EmbedCall(Len(texts))>>
    IN IF client.status = "raise" THEN EmbedResult("raise", client.exc, <<>>, client.calls)
       ELSE IF provider.call # NoExc THEN EmbedResult("raise", provider.call, <<>>, made)
       ELSE EmbedResult("ok", NoExc, EmbedTexts(texts), made)


(***************************************************************************)
(* Values of the reasoning model's JSON and int() on them                  *)
(*   [k, n, s]: k the JSON kind, n the number, s the characters            *)
(***************************************************************************)
JInt(n) == [k |-> "int", n |-> n, s |-> <<>>]
JStr(s) == [k |-> "str", n |-> 0, s |-> s]
JFloat(tenths) == [k |-> "float", n |-> tenths, s |-> <<>>]
JInf == [k |-> "inf", n |-> 0, s |-> <<>>]
JNaN == [k |-> "nan", n |-> 0, s |-> <<>>]
JNull == [k |-> "null", n |-> 0, s |-> <<>>]
JBool(b) == [k |-> "bool", n |-> IF b THEN 1 ELSE 0, s |-> <<>>]
JList == [k |-> "list", n |-> 0, s |-> <<>>]

Digits == {"0", "1", "2", "3", "4", "5", "6", "7", "8", "9"}

DigitValue(c) ==
    CASE c = "0" -> 0 [] c = "1" -> 1 [] c = "2" -> 2 [] c = "3" -> 3 [] c = "4" -> 4
      [] c = "5" -> 5 [] c = "6" -> 6 [] c = "7" -> 7 [] c = "8" -> 8 [] c = "9" -> 9

RECURSIVE DigitsValue(_)
DigitsValue(ds) ==
    IF ds = <<>> THEN 0
    ELSE 10 * DigitsValue(SubSeq(ds, 1, Len(ds) - 1)) + DigitValue(ds[Len(ds)])

\* int(<str>): surrounding whitespace and one sign are accepted, then digits only
ParseInt(chars) ==
    LET t == Strip(chars)
        signed == t # <<>> /\ Head(t) \in {"+", "-"}
        body == IF signed THEN Tail(t) ELSE t
    IN IF body # <<>> /\ \A i \in 1..Len(body) : body[i] \in Digits
       THEN [r |-> "int",
             n |-> IF signed /\ Head(t) = "-" THEN 0 - DigitsValue(body) ELSE DigitsValue(body)]
       ELSE [r |-> "ValueError", n |-> 0]

\* int(<float>) truncates toward zero
TruncTenths(t) == IF t >= 0 THEN t \div 10 ELSE 0 - ((0 - t) \div 10)

\* int(item_id): the integer, or the exception it raises
IntOf(v) ==
    CASE v.k = "int" -> [r |-> "int", n |-> v.n]
      [] v.k = "bool" -> [r |-> "int", n |-> v.n]
      [] v.k = "str" -> ParseInt(v.s)
      [] v.k = "float" -> [r |-> "int", n |-> TruncTenths(v.n)]
      [] v.k = "inf" -> [r |-> "OverflowError", n |-> 0]
      [] v.k = "nan" -> [r |-> "ValueError", n |-> 0]
      [] OTHER -> [r |-> "TypeError", n |-> 0]

InSeq(x, s) == \E i \in 1..Len(s) : s[i] = x

KeepIdNoCandidateCheck(n, candidate_ids, picked_ids) == ~InSeq(n, picked_ids)

\* line 124: normalized_id in candidate_ids and normalized_id not in picked_ids
KeepId(n, candidate_ids, picked_ids) == n \in candidate_ids /\ ~InSeq(n, picked_ids)

CapPickedNoCap(picked_ids) == picked_ids

\* line 129: picked_ids[:5]
CapPicked(picked_ids) == Take(picked_ids, MAX_PICKED)

\* the loop of _pick_items_with_llm, lines 118-125, from element i on
RECURSIVE PickLoop(_, _, _, _)
PickLoop(ids, i, candidate_ids, picked_ids) ==
    IF i > Len(ids) THEN [status |-> "ok", exc |-> NoExc, picked_ids |-> picked_ids]
    ELSE LET c == IntOf(ids[i])
         IN IF c.r \in {"TypeError", "ValueError"}
            THEN PickLoop(ids, i + 1, candidate_ids, picked_ids)
            ELSE IF c.r # "int"
            THEN [status |-> "raise", exc |-> Exc(c.r, <<>>), picked_ids |-> <<>>]
            ELSE IF KeepId(c.n, candidate_ids, picked_ids)
            THEN PickLoop(ids, i + 1, candidate_ids, Append(picked_ids, c.n))
            ELSE PickLoop(ids, i + 1, candidate_ids, picked_ids)


(***************************************************************************)
(* The reasoning model's reply (completion.choices[0].message.content)     *)
(*   kind     none: no content; invalid: not JSON; nonobject: JSON that is *)
(*            not an object; object                                        *)
(*   msg_kind / ids_kind: how the two fields of the object look            *)
(***************************************************************************)
Reply(kind, msg_kind, msg, ids_kind, ids) ==
    [kind |-> kind, msg_kind |-> msg_kind, msg |-> msg, ids_kind |-> ids_kind, ids |-> ids]

NoReply == Reply("none", "missing", <<>>, "missing", <<>>)

\* what the loop at line 119 goes through when picked_item_ids is a str:
\* its characters, each a str
StrItems(chars) == [i \in 1..Len(chars) |-> JStr(<<chars[i]>>)]

ObjectReply(msg, ids) == Reply("object", "str", msg, "list", ids)

NO_MATCH_MESSAGE ==
    <<"I", " ", "c", "o", "u", "l", "d", "n", "'", "t", " ", "f", "i", "n",
      "d", " ", "m", "a", "t", "c", "h", "i", "n", "g", " ", "i", "t", "e",
      "m", "s", " ", "y", "e", "t", ".", " ", "T", "r", "y", " ", "a", "d",
      "d", "i", "n", "g", " ", "m", "o", "r", "e", " ", "d", "e", "t", "a",
      "i", "l", "s", " ", "l", "i", "k", "e", " ", "c", "o", "l", "o", "r",
      ",", " ", "b", "r", "a", "n", "d", ",", " ", "a", "n", "d", " ", "w",
      "h", "e", "r", "e", " ", "y", "o", "u", " ", "l", "o", "s", "t", " ",
      "i", "t", ".">>

NO_ITEMS_MESSAGE ==
    <<"T", "h", "e", "r", "e", " ", "a", "r", "e", " ", "n", "o", " ", "i",
      "t", "e", "m", "s", " ", "i", "n", " ", "t", "h", "e", " ", "s", "y",
      "s", "t", "e", "m", " ", "y", "e", "t", ".">>

DEFAULT_MESSAGE ==
    <<"I", " ", "f", "o", "u", "n", "d", " ", "s", "o", "m", "e", " ", "p",
      "o", "s", "s", "i", "b", "l", "e", " ", "m", "a", "t", "c", "h", "e",
      "s", ".", " ", "C", "h", "e", "c", "k", " ", "t", "h", "e", " ", "s",
      "u", "g", "g", "e", "s", "t", "e", "d", " ", "i", "t", "e", "m", "s",
      " ", "b", "e", "l", "o", "w", ".">>

NOT_CONFIGURED ==
    <<"O", "P", "E", "N", "A", "I", "_", "A", "P", "I", "_", "K", "E", "Y",
      " ", "i", "s", " ", "n", "o", "t", " ", "c", "o", "n", "f", "i", "g",
      "u", "r", "e", "d", ".">>

PickResult(status, exc, msg, picked, made) ==
    [status |-> status, exc |-> exc, friendly_response |-> msg,
     picked_item_ids |-> picked, calls |-> made]

NoCandidatesNever(candidates) == FALSE

\* line 81: if not candidates
NoCandidates(candidates) == candidates = <<>>

\* _pick_items_with_llm; provider: what the provider library does
PickItemsWithLLM(candidates, provider, reply) ==
    IF NoCandidates(candidates)
    THEN PickResult("ok", NoExc, NO_MATCH_MESSAGE, <<>>, <<>>)
    ELSE
    LET client == GetOpenaiClient(provider.ctor)
        candidate_ids == {candidates[i].id : i \in 1..Len(candidates)}
        made == client.calls \o <<ChatCall(Len(candidates))>>
        \* parsed = json.loads(content or "{}")
        is_object == reply.kind \in {"none", "object"}
        has_ids == reply.kind = "object" /\ reply.ids_kind # "missing"
        has_msg == reply.kind = "object" /\ reply.msg_kind # "missing"
        ids == IF has_ids THEN reply.ids ELSE <<>>
        loop == PickLoop(ids, 1, candidate_ids, <<>>)
    IN IF client.status = "raise" THEN PickResult("raise", client.exc, <<>>, <<>>, client.calls)
       ELSE IF provider.call # NoExc THEN PickResult("raise", provider.call, <<>>, <<>>, made)
       ELSE IF reply.kind = "invalid"
            THEN PickResult("raise", Exc("JSONDecodeError", <<>>), <<>>, <<>>, made)
       ELSE IF ~is_object
            THEN PickResult("raise", Exc("AttributeError", <<>>), <<>>, <<>>, made)
       ELSE IF has_ids /\ reply.ids_kind = "noniterable"
            THEN PickResult("raise", Exc("TypeError", <<>>), <<>>, <<>>, made)
       ELSE IF loop.status = "raise" THEN PickResult("raise", loop.exc, <<>>, <<>>, made)
       ELSE IF has_msg /\ reply.msg_kind # "str"
            THEN PickResult("raise", Exc("AttributeError", <<>>), <<>>, <<>>, made)
       ELSE PickResult("ok", NoExc, IF has_msg THEN Strip(reply.msg) ELSE <<>>,
                       CapPicked(loop.picked_ids), made)


(***************************************************************************)
(* Items and the embedding cache                                           *)
(***************************************************************************)
NewItem(id, title, tags) ==
    [id |-> id, title |-> title, description |-> "desc", location |-> "loc",
     tags |-> tags, embedding |-> <<>>]

\* indices of the items of its for which `not item.embedding`
RECURSIVE MissingFrom(_, _)
MissingFrom(its, i) ==
    IF i > Len(its) THEN <<>>
    ELSE IF its[i].embedding = <<>> THEN <<i>> \o MissingFrom(its, i + 1)
    ELSE MissingFrom(its, i + 1)

MissingItems(its) == MissingFrom(its, 1)

ItemsToEmbedLast(missing_items, cap) ==
    IF cap >= Len(missing_items) THEN missing_items
    ELSE SubSeq(missing_items, Len(missing_items) - cap + 1, Len(missing_items))

\* line 71: missing_items[:max_items]
ItemsToEmbed(missing_items, cap) == Take(missing_items, cap)

PositionOfFirst(x, s) == 1

\* lines 75-76: zip pairs each item with the vector at its own position
PositionOf(x, s) == CHOOSE j \in 1..Len(s) : s[j] = x

EnsureSkipsUnconfiguredOnly(key, missing_items) == ~HasOpenaiConfig(key)

\* lines 63-68: the two early returns
EnsureSkips(key, missing_items) == ~HasOpenaiConfig(key) \/ missing_items = <<>>

EnsureResult(status, exc, its, made, written) ==
    [status |-> status, exc |-> exc, items |-> its, calls |-> made, written |-> written]

\* _ensure_item_embeddings; provider: what the provider library does
EnsureItemEmbeddings(key, cap, its, provider) ==
    IF EnsureSkips(key, MissingItems(its)) THEN EnsureResult("ok", NoExc, its, <<>>, {})
    ELSE
    LET missing_items == MissingItems(its)
        items_to_embed == ItemsToEmbed(missing_items, cap)
        texts == [j \in 1..Len(items_to_embed) |-> BuildItemText(its[items_to_embed[j]])]
        embedded == EmbedTextsCall(texts, provider)
    IN IF embedded.status = "raise"
       THEN EnsureResult("raise", embedded.exc, its, embedded.calls, {})
       ELSE EnsureResult("ok", NoExc,
                [i \in 1..Len(its) |->
                    IF InSeq(i, items_to_embed)
                    THEN [its[i] EXCEPT
                            !.embedding = embedded.embeddings[PositionOf(i, items_to_embed)]]
                    ELSE its[i]],
                embedded.calls, Range(items_to_embed))

SyncResult(status, exc, item, made, saved) ==
    [status |-> status, exc |-> exc, item |-> item, calls |-> made, saved |-> saved]

\* sync_item_embedding
SyncItemEmbedding(key, item, provider) ==
    IF ~HasOpenaiConfig(key) THEN SyncResult("ok", NoExc, item, <<>>, FALSE)
    ELSE
    LET embedded == EmbedTextsCall(<<BuildItemText(item)>>, provider)
    IN IF embedded.status = "raise"
       THEN SyncResult("raise", embedded.exc, item, embedded.calls, FALSE)
       ELSE SyncResult("ok", NoExc, [item EXCEPT !.embedding = embedded.embeddings[1]],
                       embedded.calls, TRUE)

(***************************************************************************)
(* Ranking                                                                 *)
(***************************************************************************)
RECURSIVE ScoredFromUnembeddedAsZero(_, _, _)
ScoredFromUnembeddedAsZero(query_embedding, its, i) ==
    IF i > Len(its) THEN <<>>
    ELSE <<[score |-> IF its[i].embedding = <<>> THEN [num |-> 0, den |-> 1]
                      ELSE CosineSimilarity(query_embedding, its[i].embedding),
            item |-> its[i]]>>
         \o ScoredFromUnembeddedAsZero(query_embedding, its, i + 1)

ScoredCandidatesUnembeddedAsZero(query_embedding, its) ==
    ScoredFromUnembeddedAsZero(query_embedding, its, 1)

RECURSIVE ScoredFrom(_, _, _)
ScoredFrom(query_embedding, its, i) ==
    IF i > Len(its) THEN <<>>
    ELSE IF its[i].embedding = <<>> THEN ScoredFrom(query_embedding, its, i + 1)
    ELSE <<[score |-> CosineSimilarity(query_embedding, its[i].embedding), item |-> its[i]]>>
         \o ScoredFrom(query_embedding, its, i + 1)

\* lines 148-153: the scored items, unembedded ones skipped
ScoredCandidates(query_embedding, its) == ScoredFrom(query_embedding, its, 1)

ComesBeforeUnstable(x, y) == ~ScoreLess(x.score, y.score)

\* sort(key=score, reverse=True): a later entry x overtakes y only with a higher score
ComesBefore(x, y) == ScoreLess(y.score, x.score)

\* insert e, the next entry in original order, into the sorted prefix
RECURSIVE InsertSorted(_, _)
InsertSorted(sorted, e) ==
    IF sorted = <<>> THEN <<e>>
    ELSE IF ComesBefore(e, Head(sorted)) THEN <<e>> \o sorted
    ELSE <<Head(sorted)>> \o InsertSorted(Tail(sorted), e)

RECURSIVE SortFrom(_, _, _)
SortFrom(entries, i, sorted) ==
    IF i > Len(entries) THEN sorted
    ELSE SortFrom(entries, i + 1, InsertSorted(sorted, entries[i]))

\* line 155: scored_candidates.sort(key=lambda entry: entry[0], reverse=True)
SortByScoreDesc(entries) == SortFrom(entries, 1, <<>>)

\* line 156: scored_candidates[:10]
TopCandidates(sorted) == Take(sorted, TOP_CANDIDATES)

\* lines 157-168
CandidatePayload(top) ==
    [i \in 1..Len(top) |->
        [id |-> top[i].item.id, title |-> top[i].item.title,
         description |-> top[i].item.description, location |-> top[i].item.location,
         tags |-> top[i].item.tags, cosine_score |-> RoundScore(top[i].score)]]

\* lines 148-168: the candidates sent to the reasoning model
RankCandidates(query_embedding, its) ==
    CandidatePayload(TopCandidates(SortByScoreDesc(ScoredCandidates(query_embedding, its))))


(***************************************************************************)
(* The orchestrator                                                        *)
(***************************************************************************)
FindResult(status, exc, message, picked, candidate_ids, its, made, reads) ==
    [status |-> status, exc |-> exc, message |-> message,
     picked_item_ids |-> picked, candidate_item_ids |-> candidate_ids,
     items |-> its, calls |-> made, reads |-> reads]

FallbackMessageNone(friendly_response) == friendly_response

\* lines 171-173: llm_pick["friendly_response"] or "<default>"
FallbackMessage(friendly_response) ==
    IF friendly_response = <<>> THEN DEFAULT_MESSAGE ELSE friendly_response

NoItemsNever(all_items) == FALSE

\* line 138: if not all_items
NoItems(all_items) == all_items = <<>>

PreResult(stage, exc, its, made, payload) ==
    [stage |-> stage, exc |-> exc, items |-> its, calls |-> made, candidate_payload |-> payload]

\* the provider's behaviour at one stage of a request in which the stage
\* fail_at meets the failure cause
ProviderAt(stage, fail_at, cause) == IF fail_at = stage THEN cause ELSE ProviderOk

\* find_lost_items_with_ai, lines 134-168: everything before the selection.
\* db: the Item table; fail_at: the stage whose provider step raises ("fill",
\* "query", "chat") or "none"; cause: how that step fails
FindCandidates(key, cap, db, query, fail_at, cause) ==
    IF ~HasOpenaiConfig(key)
    THEN PreResult("unconfigured", Exc("RuntimeError", NOT_CONFIGURED), db, <<>>, <<>>)
    ELSE IF NoItems(db) THEN PreResult("empty", NoExc, db, <<>>, <<>>)
    ELSE
    LET synced == EnsureItemEmbeddings(key, cap, db, ProviderAt("fill", fail_at, cause))
        embedded == EmbedTextsCall(<<query>>, ProviderAt("query", fail_at, cause))
    IN IF synced.status = "raise"
       THEN PreResult("raise", synced.exc, synced.items, synced.calls, <<>>)
       ELSE IF embedded.status = "raise"
       THEN PreResult("raise", embedded.exc, synced.items,
                      synced.calls \o embedded.calls, <<>>)
       ELSE PreResult("ranked", NoExc, synced.items, synced.calls \o embedded.calls,
                      RankCandidates(embedded.embeddings[1], synced.items))

\* find_lost_items_with_ai, lines 170-180: selection and the result
FindSelect(pre, fail_at, cause, reply) ==
    IF pre.stage = "unconfigured"
    THEN FindResult("raise", pre.exc.cls, pre.exc.msg, <<>>, <<>>, pre.items, <<>>, 0)
    ELSE IF pre.stage = "empty"
    THEN FindResult("ok", "", NO_ITEMS_MESSAGE, <<>>, <<>>, pre.items, <<>>, 1)
    ELSE IF pre.stage = "raise"
    THEN FindResult("raise", pre.exc.cls, pre.exc.msg, <<>>, <<>>, pre.items, pre.calls, 1)
    ELSE
    LET llm_pick == PickItemsWithLLM(pre.candidate_payload,
                                     ProviderAt("chat", fail_at, cause), reply)
        candidate_ids ==
            [i \in 1..Len(pre.candidate_payload) |-> pre.candidate_payload[i].id]
    IN IF llm_pick.status = "raise"
       THEN FindResult("raise", llm_pick.exc.cls, llm_pick.exc.msg, <<>>, <<>>, pre.items,
                       pre.calls \o llm_pick.calls, 1)
       ELSE FindResult("ok", "", FallbackMessage(llm_pick.friendly_response),
                       llm_pick.picked_item_ids, candidate_ids, pre.items,
                       pre.calls \o llm_pick.calls, 1)

\* find_lost_items_with_ai.  reply: the reasoning model's reply
FindLostItemsWithAI(key, cap, db, query, fail_at, cause, reply) ==
    FindSelect(FindCandidates(key, cap, db, query, fail_at, cause), fail_at, cause, reply)

(***************************************************************************)
(* The two endpoints (src/core/views.py)                                   *)
(*   A response is a record; a streaming response holds the generator      *)
(*   stream() as gen: the values it closed over, the loop index i and pc,  *)
(*   the yield it will reach next.                                         *)
(***************************************************************************)
UNAVAILABLE ==
    <<"T", "h", "e", " ", "a", "s", "s", "i", "s", "t", "a", "n", "t", " ",
      "i", "s", " ", "c", "u", "r", "r", "e", "n", "t", "l", "y", " ", "u",
      "n", "a", "v", "a", "i", "l", "a", "b", "l", "e", ".", " ", "P", "l",
      "e", "a", "s", "e", " ", "t", "r", "y", " ", "a", "g", "a", "i", "n",
      ".">>

CHUNK_SIZE == 80

\* json.dumps of one character of a str
JsonEscape(c) ==
    CASE c = "\"" -> <<"\\", "\"">>
      [] c = "\\" -> <<"\\", "\\">>
      [] c = "\n" -> <<"\\", "n">>
      [] OTHER -> <<c>>

\* json.dumps of a str, without the enclosing quotes
RECURSIVE JsonDumpsStr(_)
JsonDumpsStr(text) ==
    IF text = <<>> THEN <<>>
    ELSE JsonEscape(Head(text)) \o JsonDumpsStr(Tail(text))

DigitChar(d) ==
    CASE d = 0 -> "0" [] d = 1 -> "1" [] d = 2 -> "2" [] d = 3 -> "3" [] d = 4 -> "4"
      [] d = 5 -> "5" [] d = 6 -> "6" [] d = 7 -> "7" [] d = 8 -> "8" [] d = 9 -> "9"

\* json.dumps of a non-negative int
RECURSIVE DumpsNat(_)
DumpsNat(n) == IF n < 10 THEN <<DigitChar(n)>> ELSE Append(DumpsNat(n \div 10), DigitChar(n % 10))

\* json.dumps of an int
JsonDumpsInt(n) == IF n < 0 THEN <<"-">> \o DumpsNat(0 - n) ELSE DumpsNat(n)

JsonDumpsIntsReversed(ids) == [i \in 1..Len(ids) |-> JsonDumpsInt(ids[Len(ids) + 1 - i])]

\* json.dumps of a list of ints: the elements, in order
JsonDumpsInts(ids) == [i \in 1..Len(ids) |-> JsonDumpsInt(ids[i])]

\* _sse_event: the frame "event: <event>\ndata: <json.dumps(data)>\n\n"
SseEvent(event, data) == [event |-> event, data |-> data]

Response(status, data) == [kind |-> "json", status |-> status, data |-> data]

Generator(message, picked_ids, candidate_ids) ==
    [message |-> message, picked_ids |-> picked_ids, candidate_ids |-> candidate_ids,
     i |-> 0, pc |-> "chunks"]

StreamingHttpResponse(gen) ==
    [kind |-> "stream", status |-> 200, content_type |-> "text/event-stream",
     cache_control |-> "no-cache", gen |-> gen]

\* lines 233-239 and 260-266: the two except clauses
ErrorResponse(result) ==
    IF IsRuntimeError(result.exc) THEN Response(503, [detail |-> result.message])
    ELSE Response(503, [detail |-> UNAVAILABLE])

\* serializer.is_valid(raise_exception=True) on a query that is missing or blank
InvalidRequest == Response(400, [query |-> "required"])

\* LostItemAssistantAPIView.post, lines 231-248; result: what
\* find_lost_items_with_ai returned or raised
LostItemAssistantPost(result) ==
    IF result.status = "raise" THEN ErrorResponse(result)
    ELSE Response(200, [message |-> result.message,
                        pickedItemIds |-> result.picked_item_ids,
                        candidateItemIds |-> result.candidate_item_ids])

LostItemAssistantStreamPostEager(result) ==
    StreamingHttpResponse(Generator(result.message, result.picked_item_ids,
                                    result.candidate_item_ids))

\* LostItemAssistantStreamAPIView.post, lines 258-284
LostItemAssistantStreamPost(result) ==
    IF result.status = "raise" THEN ErrorResponse(result)
    ELSE StreamingHttpResponse(Generator(result.message, result.picked_item_ids,
                                         result.candidate_item_ids))

ChunkOneMore(message, i) == SubSeq(message, i + 1, Min(i + CHUNK_SIZE + 1, Len(message)))

\* message[i : i + chunk_size]
Chunk(message, i) == SubSeq(message, i + 1, Min(i + CHUNK_SIZE, Len(message)))

StreamStepCandidatesFirst(gen) ==
    IF gen.pc = "chunks" /\ gen.i < Len(gen.message)
    THEN [frame |-> SseEvent("assistant_message",
                             [chunk |-> JsonDumpsStr(Chunk(gen.message, gen.i))]),
          gen |-> [gen EXCEPT !.i = gen.i + CHUNK_SIZE]]
    ELSE IF gen.pc = "chunks"
    THEN [frame |-> SseEvent("candidate_item_ids",
                             [itemIds |-> JsonDumpsInts(gen.candidate_ids)]),
          gen |-> [gen EXCEPT !.pc = "candidates"]]
    ELSE IF gen.pc = "candidates"
    THEN [frame |-> SseEvent("selected_item_ids",
                             [itemIds |-> JsonDumpsInts(gen.picked_ids)]),
          gen |-> [gen EXCEPT !.pc = "done"]]
    ELSE [frame |-> SseEvent("done", <<>>), gen |-> [gen EXCEPT !.pc = "exhausted"]]

\* one next() on stream(), lines 272-278: the frame yielded and the generator
\* after it
StreamStep(gen) ==
    IF gen.pc = "chunks" /\ gen.i < Len(gen.message)
    THEN [frame |-> SseEvent("assistant_message",
                             [chunk |-> JsonDumpsStr(Chunk(gen.message, gen.i))]),
          gen |-> [gen EXCEPT !.i = gen.i + CHUNK_SIZE]]
    ELSE IF gen.pc = "chunks"
    THEN [frame |-> SseEvent("selected_item_ids",
                             [itemIds |-> JsonDumpsInts(gen.picked_ids)]),
          gen |-> [gen EXCEPT !.pc = "candidates"]]
    ELSE IF gen.pc = "candidates"
    THEN [frame |-> SseEvent("candidate_item_ids",
                             [itemIds |-> JsonDumpsInts(gen.candidate_ids)]),
          gen |-> [gen EXCEPT !.pc = "done"]]
    ELSE [frame |-> SseEvent("done", <<>>), gen |-> [gen EXCEPT !.pc = "exhausted"]]

(***************************************************************************)
(* State machine of the service                                            *)
(***************************************************************************)
ApiKeys == {<<>>, <<" ">>, <<"s", "k">>}

\* the constructor rejects the proxy settings of the environment
\* (test_ai_assistant.py line 120)
ProxyError ==
    Exc("ValueError",
        <<"U", "n", "s", "u", "p", "p", "o", "r", "t", "e", "d", " ", "p", "r",
          "o", "x", "y", " ", "U", "R", "L", " ", "s", "c", "h", "e", "m", "e">>)

\* the constructor rejects a setting (test_ai_assistant.py line 133)
SettingError ==
    Exc("ValueError",
        <<"i", "n", "v", "a", "l", "i", "d", " ", "s", "e", "t", "t", "i", "n",
          "g">>)

\* the API call fails with an error of the provider library
ConnectionError ==
    Exc("APIConnectionError",
        <<"C", "o", "n", "n", "e", "c", "t", "i", "o", "n", " ", "e", "r", "r",
          "o", "r", ".">>)

\* the API call fails with a RuntimeError of the transport
TransportError ==
    Exc("RuntimeError",
        <<"u", "p", "s", "t", "r", "e", "a", "m", " ", "s", "k", "-", "l", "i",
          "v", "e", " ", "c", "l", "o", "s", "e", "d">>)

\* the ways one provider step fails
ProviderFailures ==
    {Provider(ProxyError, NoExc), Provider(NoExc, ConnectionError),
     Provider(NoExc, TransportError)}

Providers == {ProviderOk} \cup ProviderFailures

CapValues == 0..MaxCap

SpecTitles == {"wallet", "keys"}

SpecQueries == {<<"black", " ", "phone">>}

\* identifiers the reasoning model may name for a catalogue of n items: the
\* first item, the last item, item 2 written as a string, and an unknown one
SpecRawValues(n) == {JInt(1), JInt(n), JInt(n + 1), JStr(<<"2">>)}

\* replies to a request made with a catalogue of n items
SpecReplies(n) ==
    {Reply("invalid", "missing", <<>>, "missing", <<>>),
     Reply("nonobject", "missing", <<>>, "missing", <<>>),
     NoReply}
    \cup {ObjectReply(m, <<>>) : m \in {<<>>, <<" ">>, <<" ", "o", "k", "\n">>}}
    \cup {ObjectReply(<<"o", "k">>, ids) : ids \in SeqsUpTo(SpecRawValues(n), MaxRawLen)}

Outcome(op, status, exc, message, picked, candidate_ids, reads) ==
    [op |-> op, status |-> status, exc |-> exc, message |-> message,
     picked_item_ids |-> picked, candidate_item_ids |-> candidate_ids, reads |-> reads]

Idle == Outcome("none", "ok", "", <<>>, <<>>, <<>>, 0)

NoArg == [fn |-> "none"]

Init ==
    /\ SiteIdle
    /\ api_key \in ApiKeys
    /\ max_items \in CapValues
    /\ items = <<>>
    /\ last = Idle
    /\ calls = <<>>
    /\ arg = NoArg
    /\ ret = NoArg

\* the deployment changes settings.OPENAI_API_KEY
SetApiKey ==
    /\ \E k \in ApiKeys : k # api_key /\ api_key' = k
    /\ last' = Idle
    /\ calls' = <<>>
    /\ UNCHANGED <<max_items, items, arg, ret>>
    /\ UNCHANGED siteVars

\* ItemSerializer.create: insert the item, then try sync_item_embedding
CreateItem ==
    /\ Len(items) < MaxItems
    /\ \E title \in SpecTitles, provider \in Providers :
          \E synced \in {SyncItemEmbedding(api_key, NewItem(Len(items) + 1, title, <<>>),
                                             provider)} :
             /\ items' = Append(items, synced.item)
             /\ calls' = synced.calls
             /\ last' = Outcome("create", "ok", "", <<>>, <<>>, <<>>, 0)
    /\ UNCHANGED <<api_key, max_items, arg, ret>>
    /\ UNCHANGED siteVars

\* sync_item_embedding(item) on a stored item
SyncEmbedding ==
    /\ \E i \in 1..Len(items), provider \in Providers :
          \E synced \in {SyncItemEmbedding(api_key, items[i], provider)} :
             /\ items' = [items EXCEPT ![i] = synced.item]
             /\ calls' = synced.calls
             /\ last' = Outcome("sync", synced.status, synced.exc.cls, synced.exc.msg,
                                <<>>, <<>>, 0)
    /\ UNCHANGED <<api_key, max_items, arg, ret>>
    /\ UNCHANGED siteVars

\* _ensure_item_embeddings(list(Item.objects.all()))
EnsureEmbeddings ==
    /\ \E provider \in Providers :
          \E synced \in {EnsureItemEmbeddings(api_key, max_items, items, provider)} :
             /\ items' = synced.items
             /\ calls' = synced.calls
             /\ last' = Outcome("ensure", synced.status, synced.exc.cls, synced.exc.msg,
                                <<>>, <<>>, 1)
    /\ UNCHANGED <<api_key, max_items, arg, ret>>
    /\ UNCHANGED siteVars

\* find_lost_items_with_ai(query)
FindLostItems ==
    /\ \E query \in SpecQueries, fail_at \in {"none", "fill", "query", "chat"} :
          \E cause \in IF fail_at = "none" THEN {ProviderOk} ELSE ProviderFailures :
          \E pre \in {FindCandidates(api_key, max_items, items, query, fail_at, cause)} :
          \E reply \in IF pre.stage = "ranked" /\ fail_at = "none"
                        THEN SpecReplies(Len(items)) ELSE {NoReply} :
          \E r \in {FindSelect(pre, fail_at, cause, reply)} :
                /\ items' = r.items
                /\ calls' = r.calls
                /\ last' = Outcome("find", r.status, r.exc, r.message, r.picked_item_ids,
                                   r.candidate_item_ids, r.reads)
    /\ UNCHANGED <<api_key, max_items, arg, ret>>
    /\ UNCHANGED siteVars

Next == SetApiKey \/ CreateItem \/ SyncEmbedding \/ EnsureEmbeddings \/ FindLostItems

Spec == Init /\ [][Next]_vars


(***************************************************************************)
(* _cosine_similarity on its own: every pair of vectors with coordinates   *)
(* in -MaxCoord..MaxCoord, at most two of them, and an integer magnitude   *)
(***************************************************************************)
SumSq(v) == SumTo([i \in 1..Len(v) |-> v[i] * v[i]], Len(v))

IsSquare(n) == \E r \in 0..n : r * r = n

CosineVectors == {v \in SeqsUpTo((0 - MaxCoord)..MaxCoord, 2) : IsSquare(SumSq(v))}

InitCosine ==
    /\ SiteIdle
    /\ api_key = <<>>
    /\ max_items = 0
    /\ items = <<>>
    /\ last = Idle
    /\ calls = <<>>
    /\ arg \in {[fn |-> "cosine", a |-> a, b |-> b] : a \in CosineVectors, b \in CosineVectors}
    /\ ret = NoArg

CallCosine ==
    /\ arg.fn = "cosine"
    /\ ret = NoArg
    /\ ret' = [fn |-> "cosine", value |-> CosineSimilarity(arg.a, arg.b)]
    /\ UNCHANGED <<api_key, max_items, items, last, calls, arg>>
    /\ UNCHANGED siteVars

SpecCosine == InitCosine /\ [][CallCosine]_vars

(***************************************************************************)
(* _pick_items_with_llm on its own                                         *)
(***************************************************************************)
\* n candidates, identifiers 1..n
PickCandidates(n) ==
    [i \in 1..n |->
        [id |-> i, title |-> "wallet", description |-> "desc", location |-> "loc",
         tags |-> <<>>, cosine_score |-> [num |-> 10000, den |-> 10000]]]

\* every kind of value the list may hold
PickValues(n) ==
    {JInt(i) : i \in 1..(n + 1)}
    \cup {JInt(999), JStr(<<"2">>), JStr(<<"x">>), JStr(<<" ", "1", "\n">>),
          JStr(<<"-", "1">>), JStr(<<"1", ".", "0">>), JStr(<<>>),
          JFloat(27), JFloat(-9), JInf, JNaN, JNull, JBool(TRUE), JList}

MaxInt(ids) ==
    LET ints == {ids[i].n : i \in {j \in 1..Len(ids) : ids[j].k = "int"}}
    IN IF ints = {} THEN 0 ELSE CHOOSE m \in ints : \A x \in ints : x <= m

\* longer lists: each element is the next unused identifier, identifier 1
\* again, or a string that is no number
RECURSIVE LongLists(_)
LongLists(len) ==
    IF len = 0 THEN {<<>>}
    ELSE LET shorter == LongLists(len - 1)
         IN shorter \cup
            UNION {{Append(r, v) : v \in {JInt(MaxInt(r) + 1), JInt(1), JStr(<<"x">>)}}
                   : r \in {t \in shorter : Len(t) = len - 1}}

\* the lists of the repository's tests (test_ai_assistant.py lines 41 and 62)
TestList1 == <<JInt(2), JStr(<<"2">>), JInt(999), JStr(<<"x">>), JInt(1)>>
TestList2 == [i \in 1..10 |-> JInt(i)]

PickReplies(n) ==
    {Reply("invalid", "missing", <<>>, "missing", <<>>),
     Reply("nonobject", "missing", <<>>, "missing", <<>>),
     Reply("object", "nonstr", <<>>, "list", <<JInt(1)>>),
     Reply("object", "str", <<"o", "k">>, "noniterable", <<>>),
     Reply("object", "str", <<"o", "k">>, "str", StrItems(<<"1", "2">>)),
     Reply("object", "missing", <<>>, "list", <<JInt(1)>>),
     Reply("object", "str", <<"o", "k">>, "missing", <<>>),
     NoReply}
    \cup {ObjectReply(m, <<JInt(1)>>) : m \in {<<>>, <<" ">>, <<" ", "o", "k", "\n">>}}
    \cup {ObjectReply(<<"o", "k">>, ids) :
            ids \in SeqsUpTo(PickValues(n), MaxRawLen) \cup LongLists(MaxPickLen)}

PickInputs ==
    {[fn |-> "pick", n |-> n, provider |-> ProviderOk, reply |-> r] :
        n \in 0..MaxPickCandidates, r \in PickReplies(MaxPickCandidates)}
    \cup {[fn |-> "pick", n |-> n, provider |-> p, reply |-> NoReply] :
        n \in 0..MaxPickCandidates, p \in ProviderFailures}
    \cup {[fn |-> "pick", n |-> 2, provider |-> ProviderOk,
           reply |-> ObjectReply(<<"H", "e", "r", "e">>, TestList1)],
          [fn |-> "pick", n |-> 10, provider |-> ProviderOk,
           reply |-> ObjectReply(<<"T", "o", "p">>, TestList2)]}

\* _get_openai_client on its own, OpenAI(...) patched as in
\* test_ai_assistant.py lines 116-135
ClientInputs == {[fn |-> "client", ctor |-> c] : c \in {NoExc, ProxyError, SettingError}}

InitPick ==
    /\ SiteIdle
    /\ api_key = <<"s", "k">>
    /\ max_items = 0
    /\ items = <<>>
    /\ last = Idle
    /\ calls = <<>>
    /\ arg \in PickInputs \cup ClientInputs
    /\ ret = NoArg

CallPick ==
    /\ arg.fn = "pick"
    /\ ret = NoArg
    /\ \E r \in {PickItemsWithLLM(PickCandidates(arg.n), arg.provider, arg.reply)} :
          /\ ret' = [fn |-> "pick", status |-> r.status, exc |-> r.exc.cls,
                     friendly_response |-> r.friendly_response,
                     picked_item_ids |-> r.picked_item_ids]
          /\ calls' = r.calls
    /\ UNCHANGED <<api_key, max_items, items, last, arg>>
    /\ UNCHANGED siteVars

CallClient ==
    /\ arg.fn = "client"
    /\ ret = NoArg
    /\ \E r \in {GetOpenaiClient(arg.ctor)} :
          /\ ret' = [fn |-> "client", status |-> r.status, exc |-> r.exc.cls]
          /\ calls' = r.calls
    /\ UNCHANGED <<api_key, max_items, items, last, arg>>
    /\ UNCHANGED siteVars

NextPick == CallPick \/ CallClient

SpecPick == InitPick /\ [][NextPick]_vars


(***************************************************************************)
(* find_lost_items_with_ai on larger catalogues: item i has the title      *)
(* RankTitle(i) and either no embedding or the provider's vector for it    *)
(***************************************************************************)
RankTitle(i) == IF i % 3 = 1 THEN "wallet" ELSE IF i % 3 = 2 THEN "keys" ELSE "phone"

RankItem(i, embedded) ==
    [NewItem(i, RankTitle(i), <<>>) EXCEPT
        !.embedding = IF embedded
                      THEN EmbedVector(BuildItemText(NewItem(i, RankTitle(i), <<>>)))
                      ELSE <<>>]

RankCatalogues ==
    UNION {{[i \in 1..n |-> RankItem(i, i \in E)] : E \in SUBSET (1..n)}
           : n \in 0..MaxRankItems}

RankQueries == {<<"wallet">>, <<"black", " ", "phone">>, <<"x">>}

RankReplies ==
    {ObjectReply(<<"o", "k">>, <<>>), ObjectReply(<<>>, <<JInt(MaxRankItems), JInt(1)>>)}

InitRank ==
    /\ SiteIdle
    /\ api_key = <<"s", "k">>
    /\ max_items \in CapValues
    /\ items \in RankCatalogues
    /\ last = Idle
    /\ calls = <<>>
    /\ arg = NoArg
    /\ ret = NoArg

\* find_lost_items_with_ai(query), the query kept in arg
RankFind ==
    /\ last = Idle
    /\ \E query \in RankQueries, fail_at \in {"none", "query"} :
          \E cause \in IF fail_at = "none" THEN {ProviderOk}
                        ELSE {Provider(NoExc, ConnectionError)} :
          \E pre \in {FindCandidates(api_key, max_items, items, query, fail_at, cause)} :
          \E reply \in IF pre.stage = "ranked" /\ fail_at = "none"
                        THEN RankReplies ELSE {NoReply} :
          \E r \in {FindSelect(pre, fail_at, cause, reply)} :
             /\ items' = r.items
             /\ calls' = r.calls
             /\ last' = Outcome("find", r.status, r.exc, r.message, r.picked_item_ids,
                                r.candidate_item_ids, r.reads)
             /\ arg' = [fn |-> "find", query |-> query]
    /\ UNCHANGED <<api_key, max_items, ret>>
    /\ UNCHANGED siteVars

SpecRank == InitRank /\ [][RankFind]_vars


(***************************************************************************)
(* The two endpoints over the pipeline: one request on a stored catalogue, *)
(* then the frames of its stream, one next() at a time                     *)
(***************************************************************************)
ApiCatalogues ==
    UNION {{[i \in 1..n |-> RankItem(i, i \in E)] : E \in SUBSET (1..n)}
           : n \in 0..MaxItems}

\* a text of len characters, all positions told apart within a chunk
LongText(len) == [i \in 1..len |-> DigitChar(i % 10)]

\* friendly_response values: absent or blank ones, one to trim, one that
\* json.dumps escapes, and ones of one chunk exactly and of three chunks
ApiMessages ==
    {<<>>, <<" ">>, <<" ", "o", "k", "\n">>, <<"a", "\n", "\"", "\\", "b">>,
     LongText(CHUNK_SIZE), LongText(2 * CHUNK_SIZE + 1)}

ApiReplies(n) ==
    {Reply("invalid", "missing", <<>>, "missing", <<>>),
     Reply("object", "missing", <<>>, "list", <<JInt(1)>>),
     NoReply}
    \cup {ObjectReply(m, ids) : m \in ApiMessages,
                                ids \in {<<>>, <<JInt(n), JInt(n + 1), JInt(1)>>}}

\* the request's query: missing, or present
ApiQueries == {<<>>} \cup SpecQueries

InitApi ==
    /\ SiteIdle
    /\ api_key \in ApiKeys
    /\ max_items \in CapValues
    /\ items \in ApiCatalogues
    /\ last = Idle
    /\ calls = <<>>
    /\ arg = NoArg
    /\ ret = NoArg

\* the handler up to its call of find_lost_items_with_ai, and the call
CallFind(fn) ==
    /\ ret = NoArg
    /\ \E query \in SpecQueries, fail_at \in {"none", "fill", "query", "chat"} :
          \E cause \in IF fail_at = "none" THEN {ProviderOk} ELSE ProviderFailures :
          \E pre \in {FindCandidates(api_key, max_items, items, query, fail_at, cause)} :
          \E reply \in IF pre.stage = "ranked" /\ fail_at = "none"
                        THEN ApiReplies(Len(items)) ELSE {NoReply} :
          \E r \in {FindSelect(pre, fail_at, cause, reply)} :
             /\ items' = r.items
             /\ calls' = r.calls
             /\ last' = Outcome("find", r.status, r.exc, r.message, r.picked_item_ids,
                                r.candidate_item_ids, r.reads)
             /\ arg' = [fn |-> fn, query |-> query, fail_at |-> fail_at,
                        cause |-> cause, reply |-> reply]
    /\ UNCHANGED <<api_key, max_items>>
    /\ UNCHANGED siteVars

\* a request without query: is_valid raises, the pipeline is not called
RejectRequest(fn) ==
    /\ ret = NoArg
    /\ arg' = [fn |-> fn, query |-> <<>>, fail_at |-> "none",
               cause |-> ProviderOk, reply |-> NoReply]
    /\ ret' = [fn |-> fn, response |-> InvalidRequest, frames |-> <<>>]
    /\ UNCHANGED <<api_key, max_items, items, last, calls>>
    /\ UNCHANGED siteVars

\* LostItemAssistantAPIView.post
AssistantPost ==
    \/ RejectRequest("assistant")
    \/ /\ CallFind("assistant")
       /\ ret' = [fn |-> "assistant", response |-> LostItemAssistantPost(last'),
                  frames |-> <<>>]

\* LostItemAssistantStreamAPIView.post
AssistantStreamPost ==
    \/ RejectRequest("assistant_stream")
    \/ /\ CallFind("assistant_stream")
       /\ ret' = [fn |-> "assistant_stream", response |-> LostItemAssistantStreamPost(last'),
                  frames |-> <<>>]

\* the server takes the next frame from stream() and sends it
StreamNext ==
    /\ ret.fn # "none"
    /\ ret.response.kind = "stream"
    /\ ret.response.gen.pc # "exhausted"
    /\ \E step \in {StreamStep(ret.response.gen)} :
          ret' = [ret EXCEPT !.response.gen = step.gen,
                             !.frames = Append(@, step.frame)]
    /\ UNCHANGED <<api_key, max_items, items, last, calls, arg>>
    /\ UNCHANGED siteVars

NextApi == AssistantPost \/ AssistantStreamPost \/ StreamNext

SpecApi == InitApi /\ [][NextApi]_vars

(***************************************************************************)
(* The two endpoints with find_lost_items_with_ai patched, as in           *)
(* test_assistant_api.py: it returns a given result or raises              *)
(***************************************************************************)
MockResult(message, picked, candidate_ids) ==
    [status |-> "ok", exc |-> "", message |-> message,
     picked_item_ids |-> picked, candidate_item_ids |-> candidate_ids]

MockRaise(cls, message) ==
    [status |-> "raise", exc |-> cls, message |-> message,
     picked_item_ids |-> <<>>, candidate_item_ids |-> <<>>]

\* the identifier lists of the tests, and lists no pipeline would produce
MockIds ==
    {[picked |-> <<10, 12>>, candidates |-> <<10, 12, 14>>],
     [picked |-> <<4, 7>>, candidates |-> <<4, 7, 9>>],
     [picked |-> <<>>, candidates |-> <<>>],
     [picked |-> <<105, -3, 0>>, candidates |-> <<2>>]}

MockMessages == {LongText(len) : len \in 0..MaxMsgLen} \cup ApiMessages

MockResults ==
    {MockResult(m, ids.picked, ids.candidates) : m \in MockMessages, ids \in MockIds}
    \cup {MockRaise("RuntimeError", NOT_CONFIGURED), MockRaise("Exception", <<"b", "o", "o", "m">>)}

InitStream ==
    /\ SiteIdle
    /\ api_key = <<"s", "k">>
    /\ max_items = 0
    /\ items = <<>>
    /\ last = Idle
    /\ calls = <<>>
    /\ arg \in {[fn |-> fn, result |-> r] :
                 fn \in {"assistant", "assistant_stream"}, r \in MockResults}
    /\ ret = NoArg

\* post on either endpoint, find_lost_items_with_ai giving arg.result
PatchedPost ==
    /\ ret = NoArg
    /\ ret' = [fn |-> arg.fn,
               response |-> IF arg.fn = "assistant"
                            THEN LostItemAssistantPost(arg.result)
                            ELSE LostItemAssistantStreamPost(arg.result),
               frames |-> <<>>]
    /\ UNCHANGED <<api_key, max_items, items, last, calls, arg>>
    /\ UNCHANGED siteVars

NextStream == PatchedPost \/ StreamNext

SpecStream == InitStream /\ [][NextStream]_vars


(***************************************************************************)
(* Requests on the Item table, one statement at a time: assistant queries  *)
(* (find_lost_items_with_ai), an edit of an item (ItemSerializer.update    *)
(* behind ItemDetailAPIView) and the deletion of an item.  Each read or    *)
(* write of the table and each provider call is one step; the steps of     *)
(* different requests interleave freely.                                   *)
(***************************************************************************)
\* position of the row of primary key id in db, 0 when there is none
RowOf(db, id) ==
    IF \E i \in 1..Len(db) : db[i].id = id
    THEN CHOOSE i \in 1..Len(db) : db[i].id = id
    ELSE 0

\* item.tags.values_list("name", flat=True): a query of its own, made when
\* the text is built and not when the item was loaded
TagNames(db, id) == IF RowOf(db, id) = 0 THEN <<>> ELSE db[RowOf(db, id)].tags

\* the loaded objects with the tag names the table holds now
WithTagNames(objs, db) ==
    [i \in 1..Len(objs) |-> [objs[i] EXCEPT !.tags = TagNames(db, objs[i].id)]]

BulkUpdateAllFields(db, objs) ==
    [i \in 1..Len(db) |->
        IF \E j \in 1..Len(objs) : objs[j].id = db[i].id
        THEN objs[CHOOSE j \in 1..Len(objs) : objs[j].id = db[i].id]
        ELSE db[i]]

\* Item.objects.bulk_update(objs, ["embedding"]): one UPDATE of the
\* embedding column of the rows that still exist
BulkUpdate(db, objs) ==
    [i \in 1..Len(db) |->
        IF \E j \in 1..Len(objs) : objs[j].id = db[i].id
        THEN [db[i] EXCEPT
                !.embedding = objs[CHOOSE j \in 1..Len(objs) : objs[j].id = db[i].id].embedding]
        ELSE db[i]]

\* the rows of db and row, in primary-key order
RECURSIVE InsertRow(_, _)
InsertRow(db, row) ==
    IF db = <<>> THEN <<row>>
    ELSE IF row.id < Head(db).id THEN <<row>> \o db
    ELSE <<Head(db)>> \o InsertRow(Tail(db), row)

\* instance.save(): an UPDATE of every column of the row, or an INSERT when
\* the UPDATE matched no row; the tags are not a column
Save(db, instance) ==
    IF RowOf(db, instance.id) = 0 THEN InsertRow(db, [instance EXCEPT !.tags = <<>>])
    ELSE [db EXCEPT ![RowOf(db, instance.id)] =
             [instance EXCEPT !.tags = TagNames(db, instance.id)]]

SaveResult(status, exc, db) == [status |-> status, exc |-> exc, items |-> db]

\* instance.save(update_fields=["embedding"]): an UPDATE of one column,
\* which raises DatabaseError when it matched no row
SaveEmbedding(db, instance) ==
    IF RowOf(db, instance.id) = 0 THEN SaveResult("raise", Exc("DatabaseError", <<>>), db)
    ELSE SaveResult("ok", NoExc,
                    [db EXCEPT ![RowOf(db, instance.id)].embedding = instance.embedding])

\* item.tags.set(tag_objects)
SetTags(db, id, tags) == [db EXCEPT ![RowOf(db, id)].tags = tags]

\* instance.delete()
DeleteRow(db, id) == SelectSeq(db, LAMBDA row : row.id # id)

\* a field the request does not carry
Absent == "None"

\* the local variables of the three kinds of request
QueryRequest ==
    [kind |-> "query", pc |-> "idle", status |-> "", all_items |-> <<>>,
     items_to_embed |-> <<>>, candidate_payload |-> <<>>, after |-> {}]

EditRequest ==
    [kind |-> "edit", pc |-> "idle", status |-> "", instance |-> <<>>,
     validated_data |-> <<>>, synced |-> ""]

DeleteRequest == [kind |-> "delete", pc |-> "idle", status |-> ""]

StoreCatalogues ==
    UNION {{[i \in 1..n |-> RankItem(i, i \in E)] : E \in SUBSET (1..n)}
           : n \in 1..MaxStoreItems}

\* what an edit sends: a new title, new tags, or both
StoreEdits ==
    {[title |-> "phone", tags |-> Absent], [title |-> Absent, tags |-> <<"red">>],
     [title |-> "phone", tags |-> <<"red">>]}

\* how the provider call of one step ends
StoreProviders == {ProviderOk, Provider(NoExc, ConnectionError)}

Queries == 1..MaxQueries
TheEdit == MaxQueries + 1
TheDelete == MaxQueries + 2

StoreKeys == {<<>>, <<"s", "k">>}

InitStore ==
    /\ api_key \in StoreKeys
    /\ max_items \in 1..MaxCap
    /\ items \in StoreCatalogues
    /\ last = Idle
    /\ calls = <<>>
    /\ arg = [fn |-> "store", items |-> items]
    /\ ret = NoArg
    /\ requests = [r \in 1..TheDelete |->
                      IF r \in Queries THEN QueryRequest
                      ELSE IF r = TheEdit THEN EditRequest ELSE DeleteRequest]
    /\ lock = 0
    /\ comment = <<>>
    /\ reports = <<>>
    /\ max_attempts = 0
    /\ otp_record = <<>>
    /\ users = <<>>

StoreFrame ==
    UNCHANGED <<api_key, max_items, last, calls, arg, ret, lock, commentVars, registerVars>>

\* find_lost_items_with_ai, lines 134-143: the configuration check and
\* list(Item.objects.prefetch_related("tags").all())
QuerySnapshot(r) ==
    /\ requests[r].kind = "query" /\ requests[r].pc = "idle"
    /\ IF r = 1 THEN TRUE ELSE requests[r - 1].pc # "idle"
    /\ requests' = [requests EXCEPT ![r] =
          IF ~HasOpenaiConfig(api_key) THEN [@ EXCEPT !.pc = "done", !.status = "raise"]
          ELSE IF NoItems(items) THEN [@ EXCEPT !.pc = "done", !.status = "ok"]
          ELSE [@ EXCEPT !.pc = "ensure", !.all_items = items,
                         !.after = {e \in DOMAIN requests :
                                       requests[e].kind = "edit" /\ requests[e].pc = "done"}]]
    /\ UNCHANGED items
    /\ StoreFrame

\* _ensure_item_embeddings, lines 63-76: the texts, the provider call and
\* the assignments to the loaded objects
QueryFill(r) ==
    /\ requests[r].kind = "query" /\ requests[r].pc = "ensure"
    /\ \E provider \in StoreProviders :
          \E synced \in {EnsureItemEmbeddings(api_key, max_items,
                             WithTagNames(requests[r].all_items, items), provider)} :
             /\ synced.calls = <<>> => provider = ProviderOk
             /\ requests' = [requests EXCEPT ![r] =
                   IF synced.status = "raise" THEN [@ EXCEPT !.pc = "done", !.status = "raise"]
                   ELSE IF synced.written = {} THEN [@ EXCEPT !.pc = "rank"]
                   ELSE [@ EXCEPT !.pc = "bulk_update", !.all_items = synced.items,
                                  !.items_to_embed =
                                      SelectSeq(synced.items,
                                          LAMBDA obj : \E i \in synced.written :
                                                          synced.items[i].id = obj.id)]]
    /\ UNCHANGED items
    /\ StoreFrame

\* _ensure_item_embeddings, line 77
QueryBulkUpdate(r) ==
    /\ requests[r].kind = "query" /\ requests[r].pc = "bulk_update"
    /\ items' = BulkUpdate(items, requests[r].items_to_embed)
    /\ requests' = [requests EXCEPT ![r].pc = "rank"]
    /\ StoreFrame

\* find_lost_items_with_ai, lines 146-180: the query's embedding, the
\* ranking of the loaded objects and the selection; nothing is written
QueryRank(r) ==
    /\ requests[r].kind = "query" /\ requests[r].pc = "rank"
    /\ \E query \in SpecQueries, provider \in StoreProviders :
          \E embedded \in {EmbedTextsCall(<<query>>, provider)} :
             requests' = [requests EXCEPT ![r] =
                IF embedded.status = "raise" THEN [@ EXCEPT !.pc = "done", !.status = "raise"]
                ELSE [@ EXCEPT !.pc = "done", !.status = "ok",
                               !.candidate_payload =
                                   RankCandidates(embedded.embeddings[1],
                                                  requests[r].all_items)]]
    /\ UNCHANGED items
    /\ StoreFrame

\* ItemDetailAPIView: get_object() loads the row; ItemSerializer.update,
\* lines 277-279, sets the fields sent on the loaded object
EditGetObject(r) ==
    /\ requests[r].kind = "edit" /\ requests[r].pc = "idle"
    /\ \E i \in 1..Len(items), data \in StoreEdits :
          requests' = [requests EXCEPT ![r] =
             [@ EXCEPT !.pc = "save", !.validated_data = data,
                       !.instance = IF data.title = Absent THEN items[i]
                                    ELSE [items[i] EXCEPT !.title = data.title]]]
    /\ UNCHANGED items
    /\ StoreFrame

\* ItemSerializer.update, line 280
EditSave(r) ==
    /\ requests[r].kind = "edit" /\ requests[r].pc = "save"
    /\ items' = Save(items, requests[r].instance)
    /\ requests' = [requests EXCEPT ![r].pc = "tags"]
    /\ StoreFrame

\* ItemSerializer.update, line 281: _upsert_tags.  Setting the tags of a
\* row that is gone violates the foreign key and the request fails
EditUpsertTags(r) ==
    /\ requests[r].kind = "edit" /\ requests[r].pc = "tags"
    /\ LET tags == requests[r].validated_data.tags
           id == requests[r].instance.id
       IN IF tags = Absent
          THEN /\ requests' = [requests EXCEPT ![r].pc = "sync"]
               /\ UNCHANGED items
          ELSE IF RowOf(items, id) = 0
          THEN /\ requests' = [requests EXCEPT ![r].pc = "done", ![r].status = "raise"]
               /\ UNCHANGED items
          ELSE /\ requests' = [requests EXCEPT ![r].pc = "sync"]
               /\ items' = SetTags(items, id, tags)
    /\ StoreFrame

\* ItemSerializer.update, lines 282-285, and sync_item_embedding, lines
\* 43-46: the text of the loaded object, the provider call and the
\* assignment; an exception is swallowed
EditSync(r) ==
    /\ requests[r].kind = "edit" /\ requests[r].pc = "sync"
    /\ \E provider \in StoreProviders :
          \E synced \in {SyncItemEmbedding(api_key,
                             [requests[r].instance EXCEPT
                                 !.tags = TagNames(items, requests[r].instance.id)],
                             provider)} :
             /\ synced.calls = <<>> => provider = ProviderOk
             /\ requests' = [requests EXCEPT ![r] =
                   IF synced.status = "raise"
                   THEN [@ EXCEPT !.pc = "done", !.status = "ok", !.synced = "failed"]
                   ELSE IF ~synced.saved
                   THEN [@ EXCEPT !.pc = "done", !.status = "ok", !.synced = "skipped"]
                   ELSE [@ EXCEPT !.pc = "sync_save",
                                  !.instance.embedding = synced.item.embedding]]
    /\ UNCHANGED items
    /\ StoreFrame

\* sync_item_embedding, line 47
EditSyncSave(r) ==
    /\ requests[r].kind = "edit" /\ requests[r].pc = "sync_save"
    /\ \E saved \in {SaveEmbedding(items, requests[r].instance)} :
          /\ items' = saved.items
          /\ requests' = [requests EXCEPT
                ![r].pc = "done", ![r].status = "ok",
                ![r].synced = IF saved.status = "raise" THEN "failed" ELSE "ok"]
    /\ StoreFrame

\* ItemDetailAPIView.destroy
DeleteItem(r) ==
    /\ requests[r].kind = "delete" /\ requests[r].pc = "idle"
    /\ \E i \in 1..Len(items) : items' = DeleteRow(items, items[i].id)
    /\ requests' = [requests EXCEPT ![r].pc = "done", ![r].status = "ok"]
    /\ StoreFrame

\* the deployment is restarted with another settings.OPENAI_API_KEY, while
\* no request is being handled
StoreSetApiKey ==
    /\ \A r \in DOMAIN requests : requests[r].pc \in {"idle", "done"}
    /\ \E k \in StoreKeys : k # api_key /\ api_key' = k
    /\ UNCHANGED <<max_items, items, last, calls, arg, ret, siteVars>>

\* one query, one edit and one deletion
NextStore ==
    \/ QuerySnapshot(1)
    \/ QueryFill(1)
    \/ QueryBulkUpdate(1)
    \/ QueryRank(1)
    \/ EditGetObject(TheEdit)
    \/ EditSave(TheEdit)
    \/ EditUpsertTags(TheEdit)
    \/ EditSync(TheEdit)
    \/ EditSyncSave(TheEdit)
    \/ DeleteItem(TheDelete)
    \/ StoreSetApiKey

SpecStore == InitStore /\ [][NextStore]_vars

\* several queries at once, and no other request
NextOverlap ==
    \/ \E r \in Queries : QuerySnapshot(r)
    \/ \E r \in Queries : QueryFill(r)
    \/ \E r \in Queries : QueryBulkUpdate(r)
    \/ \E r \in Queries : QueryRank(r)

SpecOverlap == InitStore /\ [][NextOverlap]_vars

(***************************************************************************)
(* Reports of one comment: CommentReportAPIView.post, one statement group  *)
(* at a time.  The database gives select_for_update() a row lock held to   *)
(* the end of the transaction, and what a transaction wrote is seen by the *)
(* other requests when it commits.                                         *)
(***************************************************************************)
\* views.py, line 30
COMMENT_REMOVE_THRESHOLD == 5

\* the user of each request: one request per user, and a second request of
\* the last user
ReportSlots == 1..(MaxUsers + 1)
UserOf(r) == IF r <= MaxUsers THEN r ELSE MaxUsers

\* the local variables of a report request; status is the HTTP status, 0
\* while the request is being handled
ReportRequest(user) ==
    [kind |-> "report", pc |-> "idle", status |-> 0, user |-> user, detail |-> ""]

Respond(request, status, detail) ==
    [request EXCEPT !.pc = "done", !.status = status, !.detail = detail]

\* CommentReport.objects.filter(comment=locked_comment).count()
CountReports(table) == SumTo(table, Len(table))

ExceedsThresholdOrEquals(report_count) == report_count >= COMMENT_REMOVE_THRESHOLD

\* line 213
ExceedsThreshold(report_count) == report_count > COMMENT_REMOVE_THRESHOLD

GetOrCreateAlways(table, user) ==
    [created |-> TRUE, reports |-> [table EXCEPT ![user] = @ + 1]]

\* CommentReport.objects.get_or_create(comment=..., user=...): the row of
\* the user when there is one, a new row otherwise
GetOrCreate(table, user) ==
    IF table[user] > 0 THEN [created |-> FALSE, reports |-> table]
    ELSE [created |-> TRUE, reports |-> [table EXCEPT ![user] = @ + 1]]

InitReport ==
    /\ api_key = <<>>
    /\ max_items = 1
    /\ items = <<>>
    /\ last = Idle
    /\ calls = <<>>
    /\ arg = NoArg
    /\ ret = NoArg
    /\ requests = [r \in ReportSlots |-> ReportRequest(UserOf(r))]
    /\ lock = 0
    /\ comment = [user_id |-> 1, is_removed |-> FALSE]
    /\ reports = [u \in 1..MaxUsers |-> 0]
    /\ max_attempts = 0
    /\ otp_record = <<>>
    /\ users = <<>>

ReportFrame == UNCHANGED <<assistantVars, registerVars>>

\* lines 184-194: the comment is read outside the transaction
ReportLoad(r) ==
    /\ requests[r].kind = "report" /\ requests[r].pc = "idle"
    /\ requests' = [requests EXCEPT ![r] =
          IF comment.is_removed THEN Respond(@, 400, "This comment has been removed.")
          ELSE IF comment.user_id = requests[r].user
          THEN Respond(@, 400, "You cannot report your own comment.")
          ELSE [@ EXCEPT !.pc = "select_for_update"]]
    /\ UNCHANGED <<lock, comment, reports>>
    /\ ReportFrame

\* lines 196-199: the row is locked and read again; returning from inside
\* the block ends the transaction
ReportLock(r) ==
    /\ requests[r].kind = "report" /\ requests[r].pc = "select_for_update"
    /\ lock = 0
    /\ IF comment.is_removed
       THEN /\ requests' = [requests EXCEPT ![r] =
                              Respond(@, 400, "This comment has been removed.")]
            /\ UNCHANGED lock
       ELSE /\ requests' = [requests EXCEPT ![r].pc = "get_or_create"]
            /\ lock' = r
    /\ UNCHANGED <<comment, reports>>
    /\ ReportFrame

\* lines 201-210: a user who has a report is answered 400 and the
\* transaction ends
ReportGetOrCreate(r) ==
    /\ requests[r].kind = "report" /\ requests[r].pc = "get_or_create"
    /\ lock = r
    /\ IF GetOrCreate(reports, requests[r].user).created
       THEN /\ requests' = [requests EXCEPT ![r].pc = "count"]
            /\ UNCHANGED lock
       ELSE /\ requests' = [requests EXCEPT ![r] =
                              Respond(@, 400, "You have already reported this comment.")]
            /\ lock' = 0
    /\ UNCHANGED <<comment, reports>>
    /\ ReportFrame

\* lines 212-217: the count, the removal and the end of the transaction,
\* which publishes the new report and the removal together
ReportCount(r) ==
    /\ requests[r].kind = "report" /\ requests[r].pc = "count"
    /\ lock = r
    /\ \E created \in {GetOrCreate(reports, requests[r].user)} :
          /\ reports' = created.reports
          /\ comment' = IF ExceedsThreshold(CountReports(created.reports))
                        THEN [comment EXCEPT !.is_removed = TRUE]
                        ELSE comment
    /\ lock' = 0
    /\ requests' = [requests EXCEPT ![r] =
                       Respond(@, 201, "Comment reported successfully.")]
    /\ ReportFrame

NextReport ==
    \E r \in ReportSlots :
       \/ ReportLoad(r)
       \/ ReportLock(r)
       \/ ReportGetOrCreate(r)
       \/ ReportCount(r)

SpecReport == InitReport /\ [][NextReport]_vars


(***************************************************************************)
(* Registrations with one EmailOTP record: RegisterSerializer.validate and *)
(* RegisterSerializer.create behind RegisterAPIView, one read or write of  *)
(* the tables at a time.  The reads and the attempt counter's save run     *)
(* outside any transaction; the creation of the user runs in a transaction *)
(* that holds the row lock of the record.                                  *)
(***************************************************************************)
Registers == 1..MaxRegisters

\* the registering email, the code that was mailed and another code
Email == "a@b.c"
MailedOtp == "123456"
Otps == {MailedOtp, "000000"}

\* the local variables of a register request; status is the HTTP status, 0
\* while the request is being handled; overlapped tells whether another
\* request was being handled at some time during this one
RegisterRequest ==
    [kind |-> "register", pc |-> "idle", status |-> 0, detail |-> "", otp |-> "",
     otp_record |-> <<>>, overlapped |-> FALSE]

InFlight(r) == requests[r].pc \notin {"idle", "done"}

\* EmailOTP.check_otp
CheckOtp(record, otp) == otp = record.otp

\* otp_record.is_used or otp_record.is_expired
UsedOrExpired(record) == record.is_used \/ record.expired

MarkUsedNot(record) == record

\* is_used = True
MarkUsed(record) == [record EXCEPT !.is_used = TRUE]

InitRegister ==
    /\ api_key = <<>>
    /\ max_items = 1
    /\ items = <<>>
    /\ last = Idle
    /\ calls = <<>>
    /\ arg = NoArg
    /\ ret = NoArg
    /\ requests = [r \in Registers |-> RegisterRequest]
    /\ lock = 0
    /\ comment = <<>>
    /\ reports = <<>>
    /\ max_attempts \in 1..MaxAttempts
    /\ otp_record = [otp |-> MailedOtp, attempt_count |-> 0, is_used |-> FALSE,
                     expired |-> FALSE]
    /\ users = <<>>

RegisterFrame == UNCHANGED <<assistantVars, commentVars, max_attempts>>

\* RegisterSerializer.validate, lines 96-113: the newest unused, unexpired
\* record of the email
RegisterValidate(r) ==
    /\ requests[r].kind = "register" /\ requests[r].pc = "idle"
    /\ \E otp \in Otps :
          requests' = [q \in Registers |->
             IF q = r
             THEN IF UsedOrExpired(otp_record)
                  THEN Respond([requests[r] EXCEPT !.otp = otp], 400, "OTP is invalid or expired.")
                  ELSE [requests[r] EXCEPT !.pc = "create", !.otp = otp,
                           !.overlapped = \E p \in Registers : InFlight(p)]
             ELSE IF InFlight(q) /\ ~UsedOrExpired(otp_record)
                  THEN [requests[q] EXCEPT !.overlapped = TRUE]
                  ELSE requests[q]]
    /\ UNCHANGED <<lock, otp_record, users>>
    /\ RegisterFrame

\* RegisterSerializer.create, lines 116-127: the record is read, outside
\* any transaction
RegisterRead(r) ==
    /\ requests[r].kind = "register" /\ requests[r].pc = "create"
    /\ requests' = [requests EXCEPT ![r] =
          IF UsedOrExpired(otp_record)
          THEN Respond(@, 400, "OTP is invalid or expired.")
          ELSE [@ EXCEPT !.pc = "check", !.otp_record = otp_record]]
    /\ UNCHANGED <<lock, otp_record, users>>
    /\ RegisterFrame

\* lines 129-143: the checks on the object that was read, and the save of
\* the fields named in update_fields; a save waits for the row lock
RegisterCheck(r) ==
    /\ requests[r].kind = "register" /\ requests[r].pc = "check"
    /\ LET read == requests[r].otp_record
           attempt_count == read.attempt_count + 1
       IN IF read.attempt_count >= max_attempts
          THEN /\ lock = 0
               /\ otp_record' = MarkUsed(otp_record)
               /\ requests' = [requests EXCEPT ![r] =
                     Respond(@, 400, "OTP has exceeded the maximum attempts. Request a new code.")]
          ELSE IF ~CheckOtp(read, requests[r].otp)
          THEN /\ lock = 0
               /\ otp_record' =
                     IF attempt_count >= max_attempts
                     THEN MarkUsed([otp_record EXCEPT !.attempt_count = attempt_count])
                     ELSE [otp_record EXCEPT !.attempt_count = attempt_count]
               /\ requests' = [requests EXCEPT ![r] = Respond(@, 400, "Invalid OTP.")]
          ELSE /\ requests' = [requests EXCEPT ![r].pc = "atomic"]
               /\ UNCHANGED otp_record
    /\ UNCHANGED <<lock, users>>
    /\ RegisterFrame

\* lines 145-159: the record is locked and read again, and the user table
\* is searched; an exception ends the transaction
RegisterLock(r) ==
    /\ requests[r].kind = "register" /\ requests[r].pc = "atomic"
    /\ lock = 0
    /\ IF UsedOrExpired(otp_record)
       THEN /\ requests' = [requests EXCEPT ![r] =
                              Respond(@, 400, "OTP is invalid or expired.")]
            /\ UNCHANGED lock
       ELSE IF \E i \in 1..Len(users) : users[i] = Email
       THEN /\ requests' = [requests EXCEPT ![r] =
                              Respond(@, 400, "A user with this email already exists.")]
            /\ UNCHANGED lock
       ELSE /\ requests' = [requests EXCEPT ![r].pc = "create_user"]
            /\ lock' = r
    /\ UNCHANGED <<otp_record, users>>
    /\ RegisterFrame

\* lines 161-171 and RegisterAPIView.create: the user is created, the
\* record is marked used and the transaction commits
RegisterCreateUser(r) ==
    /\ requests[r].kind = "register" /\ requests[r].pc = "create_user"
    /\ lock = r
    /\ users' = Append(users, Email)
    /\ otp_record' = MarkUsed(otp_record)
    /\ lock' = 0
    /\ requests' = [requests EXCEPT ![r] = Respond(@, 201, "")]
    /\ RegisterFrame

\* the clock passes expires_at
Expire ==
    /\ otp_record # <<>>
    /\ ~otp_record.expired
    /\ otp_record' = [otp_record EXCEPT !.expired = TRUE]
    /\ UNCHANGED <<requests, lock, users>>
    /\ RegisterFrame

NextRegister ==
    \/ \E r \in Registers :
          \/ RegisterValidate(r)
          \/ RegisterRead(r)
          \/ RegisterCheck(r)
          \/ RegisterLock(r)
          \/ RegisterCreateUser(r)
    \/ Expire

SpecRegister == InitRegister /\ [][NextRegister]_vars


(***************************************************************************)
(* Properties                                                              *)
(***************************************************************************)
FoundResult == last.op = "find" /\ last.status = "ok"

\* the key is empty or blank: no provider is configured
Unconfigured == \A i \in 1..Len(api_key) : api_key[i] \in Whitespace

Embedded(its) == {i \in 1..Len(its) : its[i].embedding # <<>>}

Missing(its) == {i \in 1..Len(its) : its[i].embedding = <<>>}

\* C1: in every result returned by find_lost_items_with_ai, each identifier
\* of picked_item_ids also appears in candidate_item_ids
C1_PickedAmongCandidates ==
    FoundResult =>
        \A i \in 1..Len(last.picked_item_ids) :
            \E j \in 1..Len(last.candidate_item_ids) :
                last.candidate_item_ids[j] = last.picked_item_ids[i]

\* a result with picks, returned while some catalogue item is no candidate
C1_Witness ==
    /\ FoundResult
    /\ last.picked_item_ids # <<>>
    /\ Len(last.candidate_item_ids) < Len(items)

Picked == ret.fn = "pick" /\ ret.status = "ok"

DistinctValidInts(ids, n) ==
    /\ \A i \in 1..Len(ids) : ids[i].k = "int" /\ ids[i].n \in 1..n
    /\ \A i, j \in 1..Len(ids) : i # j => ids[i].n # ids[j].n

\* C2: the picked list returned by _pick_items_with_llm has no duplicate and
\* at most 5 entries; a reply of at least 5 distinct candidate identifiers
\* and nothing else gives exactly its first 5
C2_PickedDistinctAtMostFive ==
    Picked =>
        /\ Len(ret.picked_item_ids) <= 5
        /\ \A i, j \in 1..Len(ret.picked_item_ids) :
              i # j => ret.picked_item_ids[i] # ret.picked_item_ids[j]
        /\ (/\ arg.reply.kind = "object"
            /\ arg.reply.ids_kind = "list"
            /\ Len(arg.reply.ids) >= 5
            /\ DistinctValidInts(arg.reply.ids, arg.n))
           => ret.picked_item_ids = [i \in 1..5 |-> arg.reply.ids[i].n]

\* the test's case: 10 candidates, the reply names all 10, 5 are returned
C2_Witness ==
    /\ Picked
    /\ arg.n = 10
    /\ Len(arg.reply.ids) = 10
    /\ DistinctValidInts(arg.reply.ids, 10)
    /\ ret.picked_item_ids = <<1, 2, 3, 4, 5>>

\* The reference sanitization of C3, by positions: position i is kept when
\* its value coerces to an integer that is a candidate identifier and no
\* earlier position holds a value that coerces to the same integer
RefKeptPositions(ids, candidate_ids) ==
    {i \in 1..Len(ids) :
        /\ IntOf(ids[i]).r = "int"
        /\ IntOf(ids[i]).n \in candidate_ids
        /\ \A j \in 1..(i - 1) :
              ~(IntOf(ids[j]).r = "int" /\ IntOf(ids[j]).n = IntOf(ids[i]).n)}

\* the members of a set of positions, ascending
RECURSIVE Ascending(_)
Ascending(P) ==
    IF P = {} THEN <<>>
    ELSE LET m == CHOOSE x \in P : \A y \in P : x <= y
         IN <<m>> \o Ascending(P \ {m})

RefSanitized(ids, candidate_ids) ==
    LET kept == Ascending(RefKeptPositions(ids, candidate_ids))
        first == IF Len(kept) > 5 THEN SubSeq(kept, 1, 5) ELSE kept
    IN [i \in 1..Len(first) |-> IntOf(ids[first[i]]).n]

ListReply ==
    /\ arg.fn = "pick"
    /\ arg.provider = ProviderOk
    /\ arg.reply.kind = "object"
    /\ arg.reply.msg_kind = "str"
    /\ arg.reply.ids_kind = "list"

\* C3: for a reply whose picked_item_ids is a list, _pick_items_with_llm
\* returns the reference sanitization of it: values that fail coercion, are
\* no candidate identifier or were already kept are dropped, in the reply's
\* order, and the first 5 of the rest are kept
C3_SanitizationEqualsReference ==
    (ListReply /\ ret.fn = "pick") =>
        /\ ret.status = "ok"
        /\ ret.picked_item_ids = RefSanitized(arg.reply.ids, 1..arg.n)

\* C3, supporting check: the code and the reference differ only where the
\* code raises OverflowError on a float that is infinite
C3_EqualsReferenceUnlessOverflow ==
    (ListReply /\ ret.fn = "pick") =>
        IF \E i \in 1..Len(arg.reply.ids) : arg.reply.ids[i].k = "inf"
        THEN arg.n = 0 \/ (ret.status = "raise" /\ ret.exc = "OverflowError")
        ELSE /\ ret.status = "ok"
             /\ ret.picked_item_ids = RefSanitized(arg.reply.ids, 1..arg.n)


\* position in the item snapshot of the item with identifier id
PositionOfId(id) == CHOOSE i \in 1..Len(items) : items[i].id = id

\* score of the item at position i against the query kept in arg
ScoreAt(i) == CosineSimilarity(EmbedVector(arg.query), items[i].embedding)

CandidatePositions ==
    {PositionOfId(last.candidate_item_ids[j]) : j \in 1..Len(last.candidate_item_ids)}

\* C4: with k items holding an embedding after cache synchronization,
\* candidate_item_ids has exactly min(10, k) entries, all of them embedded
\* items, in descending score, and no embedded item left out scores higher
\* than a listed one
C4_CandidatesAreTopTenEmbedded ==
    (FoundResult /\ arg.fn = "find") =>
        LET ids == last.candidate_item_ids
            k == Cardinality(Embedded(items))
        IN /\ Len(ids) = IF k < 10 THEN k ELSE 10
           /\ \A j \in 1..Len(ids) : \E i \in Embedded(items) : items[i].id = ids[j]
           /\ \A j1, j2 \in 1..Len(ids) : j1 # j2 => ids[j1] # ids[j2]
           /\ \A j \in 1..(Len(ids) - 1) :
                 ~ScoreLess(ScoreAt(PositionOfId(ids[j])), ScoreAt(PositionOfId(ids[j + 1])))
           /\ \A x \in Embedded(items) \ CandidatePositions :
                 \A c \in CandidatePositions : ~ScoreLess(ScoreAt(c), ScoreAt(x))

\* more than 10 embedded items, 10 candidates, and an item without embedding
C4_Witness ==
    /\ FoundResult
    /\ arg.fn = "find"
    /\ Cardinality(Embedded(items)) > 10
    /\ Len(last.candidate_item_ids) = 10
    /\ Missing(items) # {}

\* C5: candidates of equal score keep their snapshot order, and of a group
\* of equal score cut by the truncation to 10 the earlier items are kept
C5_RankingIsStable ==
    (FoundResult /\ arg.fn = "find") =>
        LET ids == last.candidate_item_ids
        IN /\ \A j1, j2 \in 1..Len(ids) :
                 (j1 < j2 /\ ScoreEq(ScoreAt(PositionOfId(ids[j1])),
                                     ScoreAt(PositionOfId(ids[j2]))))
                 => PositionOfId(ids[j1]) < PositionOfId(ids[j2])
           /\ \A x \in Embedded(items) \ CandidatePositions :
                 \A c \in CandidatePositions :
                    ScoreEq(ScoreAt(c), ScoreAt(x)) => c < x

\* the truncation cuts a group of equal score, whose scores differ from
\* those of other candidates
C5_Witness ==
    /\ FoundResult
    /\ arg.fn = "find"
    /\ \E x \in Embedded(items) \ CandidatePositions :
          \E c \in CandidatePositions : ScoreEq(ScoreAt(c), ScoreAt(x))
    /\ \E c1, c2 \in CandidatePositions : ScoreLess(ScoreAt(c1), ScoreAt(c2))

RefDot(a, b) == SumTo([i \in 1..Len(a) |-> a[i] * b[i]], Len(a))

Degenerate(a, b) ==
    \/ a = <<>>
    \/ b = <<>>
    \/ Len(a) # Len(b)
    \/ \A i \in 1..Len(a) : a[i] = 0
    \/ \A i \in 1..Len(b) : b[i] = 0

\* C6: _cosine_similarity is exactly -1 when a vector is empty, the lengths
\* differ or a magnitude is zero; otherwise it is the dot product divided
\* by the product of the magnitudes (1 for two identical vectors)
C6_CosineValue ==
    ret.fn = "cosine" =>
        IF Degenerate(arg.a, arg.b)
        THEN ret.value.num = -1 /\ ret.value.den = 1
        ELSE /\ ret.value.den > 0
             /\ ret.value.num * ret.value.num * SumSq(arg.a) * SumSq(arg.b)
                  = RefDot(arg.a, arg.b) * RefDot(arg.a, arg.b) * ret.value.den * ret.value.den
             /\ (ret.value.num > 0) = (RefDot(arg.a, arg.b) > 0)
             /\ (ret.value.num < 0) = (RefDot(arg.a, arg.b) < 0)
             /\ arg.a = arg.b => ret.value.num = ret.value.den

\* a zero vector against a non-zero vector of the same length
C6_Witness ==
    /\ ret.fn = "cosine"
    /\ arg.a = <<0, 0>>
    /\ arg.b = <<3, 4>>
    /\ ret.value = [num |-> -1, den |-> 1]

\* position i is one of the first n positions of its without an embedding
AmongFirstMissing(its, i, n) ==
    /\ i \in Missing(its)
    /\ Cardinality({j \in Missing(its) : j < i}) < n

\* C7: with a provider configured and more items lacking an embedding than
\* the cap N, a call of _ensure_item_embeddings whose provider call returns
\* embeds exactly the first N missing items, each with the provider's
\* vector for its own text, in one call, and changes nothing else
C7_EnsureEmbedsFirstN ==
    [][(/\ last'.op = "ensure"
        /\ last'.status = "ok"
        /\ ~Unconfigured
        /\ Cardinality(Missing(items)) > max_items)
       => /\ Len(items') = Len(items)
          /\ Cardinality(Embedded(items') \ Embedded(items)) = max_items
          /\ \A i \in 1..Len(items) :
                items'[i] =
                    IF AmongFirstMissing(items, i, max_items)
                    THEN [items[i] EXCEPT !.embedding = EmbedVector(BuildItemText(items[i]))]
                    ELSE items[i]
          /\ calls' = <<[kind |-> "client", trust_env |-> TRUE],
                        [kind |-> "embed", n |-> max_items]>>]_vars

\* after such a call: the cap was used in full, some item is still without
\* an embedding, and two items hold different vectors
C7_Witness ==
    /\ last.op = "ensure"
    /\ last.status = "ok"
    /\ max_items >= 2
    /\ calls = <<[kind |-> "client", trust_env |-> TRUE],
                [kind |-> "embed", n |-> max_items]>>
    /\ Missing(items) # {}
    /\ \E i, j \in Embedded(items) : items[i].embedding # items[j].embedding

\* C8: _ensure_item_embeddings makes no provider call and changes no item
\* when no item lacks an embedding or when no provider is configured, and
\* so does sync_item_embedding when no provider is configured
C8_SyncNoOp ==
    [][(\/ last'.op = "ensure" /\ (Unconfigured \/ Missing(items) = {})
        \/ last'.op = "sync" /\ Unconfigured)
       => /\ items' = items
          /\ calls' = <<>>
          /\ last'.status = "ok"]_vars

\* _ensure_item_embeddings has run without a provider on a catalogue that
\* holds items with and without an embedding
C8_Witness ==
    /\ last.op = "ensure"
    /\ Unconfigured
    /\ Missing(items) # {}
    /\ Embedded(items) # {}
    /\ calls = <<>>

\* C9: without a provider key find_lost_items_with_ai raises the
\* not-configured error, has not read the item store and has made no
\* provider call; it returns no result
C9_NotConfiguredFirst ==
    (last.op = "find" /\ Unconfigured) =>
        /\ last.status = "raise"
        /\ last.exc = "RuntimeError"
        /\ last.message =
              <<"O", "P", "E", "N", "A", "I", "_", "A", "P", "I", "_", "K", "E", "Y",
                " ", "i", "s", " ", "n", "o", "t", " ", "c", "o", "n", "f", "i", "g",
                "u", "r", "e", "d", ".">>
        /\ last.reads = 0
        /\ calls = <<>>

\* the call was made with a blank key on a catalogue with unembedded items
C9_Witness ==
    /\ last.op = "find"
    /\ api_key = <<" ">>
    /\ Missing(items) # {}
    /\ last.status = "raise"

\* C10: with a provider configured and no catalogue item,
\* find_lost_items_with_ai returns the fixed message with empty picked and
\* candidate lists and makes no provider call
C10_EmptyCatalogue ==
    (last.op = "find" /\ ~Unconfigured /\ items = <<>>) =>
        /\ last.status = "ok"
        /\ last.message =
              <<"T", "h", "e", "r", "e", " ", "a", "r", "e", " ", "n", "o", " ", "i",
                "t", "e", "m", "s", " ", "i", "n", " ", "t", "h", "e", " ", "s", "y",
                "s", "t", "e", "m", " ", "y", "e", "t", ".">>
        /\ last.picked_item_ids = <<>>
        /\ last.candidate_item_ids = <<>>
        /\ calls = <<>>

C10_Witness ==
    /\ last.op = "find"
    /\ ~Unconfigured
    /\ items = <<>>
    /\ last.status = "ok"

\* C11: given no candidate, _pick_items_with_llm returns its canned,
\* non-empty explanation and an empty pick list, and has built no provider
\* client and made no reasoning-model call
C11_NoCandidatesNoCall ==
    (ret.fn = "pick" /\ arg.n = 0) =>
        /\ ret.status = "ok"
        /\ ret.friendly_response # <<>>
        /\ Len(ret.friendly_response) = 101
        /\ SubSeq(ret.friendly_response, 1, 9)
             = <<"I", " ", "c", "o", "u", "l", "d", "n", "'">>
        /\ ret.picked_item_ids = <<>>
        /\ calls = <<>>

\* no candidate, while the provider would have failed and while the reply
\* would have named identifiers
C11_Witness ==
    /\ ret.fn = "pick"
    /\ arg.n = 0
    /\ ret.status = "ok"
    /\ calls = <<>>
    /\ \/ arg.provider # ProviderOk
       \/ arg.reply.ids # <<>>

\* a request handled by one of the two endpoints
Requested == arg.fn \in {"assistant", "assistant_stream"}

\* the reply gives no message, or one that is empty once trimmed
BlankFriendlyResponse ==
    \/ arg.reply.kind = "none"
    \/ arg.reply.msg_kind = "missing"
    \/ \A i \in 1..Len(arg.reply.msg) : arg.reply.msg[i] \in Whitespace

\* C12: every result of find_lost_items_with_ai has a non-empty message;
\* when the selector's friendly_response is empty or blank the message is
\* the fixed fallback, and the selector's picks and the candidate list are
\* in the result as they were
C12_MessageNeverEmpty ==
    (Requested /\ FoundResult) =>
        /\ last.message # <<>>
        /\ (BlankFriendlyResponse /\ last.candidate_item_ids # <<>>) =>
              /\ last.message =
                    <<"I", " ", "f", "o", "u", "n", "d", " ", "s", "o", "m", "e", " ", "p",
                      "o", "s", "s", "i", "b", "l", "e", " ", "m", "a", "t", "c", "h", "e",
                      "s", ".", " ", "C", "h", "e", "c", "k", " ", "t", "h", "e", " ", "s",
                      "u", "g", "g", "e", "s", "t", "e", "d", " ", "i", "t", "e", "m", "s",
                      " ", "b", "e", "l", "o", "w", ".">>
              /\ last.picked_item_ids =
                    IF arg.reply.ids_kind = "list"
                    THEN RefSanitized(arg.reply.ids, Range(last.candidate_item_ids))
                    ELSE <<>>
              /\ Range(last.candidate_item_ids) = {items[i].id : i \in Embedded(items)}
              /\ Len(last.candidate_item_ids) = Cardinality(Embedded(items))

\* a blank friendly_response came with picks
C12_Witness ==
    /\ Requested
    /\ FoundResult
    /\ arg.reply.msg = <<" ">>
    /\ Len(last.picked_item_ids) = 2
    /\ Len(last.message) = 63

\* the reply is not the object asked for: no JSON, no object, a
\* friendly_response that is no string, a picked_item_ids that is no list,
\* or a field is missing
MalformedMessage == arg.reply.kind # "object" \/ arg.reply.msg_kind # "str"

MalformedIds == arg.reply.kind # "object" \/ arg.reply.ids_kind # "list"

\* C13: on a malformed reply _pick_items_with_llm does not raise; it returns
\* a result in which a missing or malformed message is empty and a missing
\* or malformed identifier list is empty
C13_MalformedReplySanitized ==
    (/\ ret.fn = "pick"
     /\ arg.n > 0
     /\ arg.provider = ProviderOk
     /\ MalformedMessage \/ MalformedIds)
    => /\ ret.status = "ok"
       /\ MalformedMessage => ret.friendly_response = <<>>
       /\ MalformedIds => ret.picked_item_ids = <<>>

\* C13, supporting check: what the code does on such replies.  A field that
\* is missing, and content that is absent, default as C13 says; anything
\* else malformed raises, except a picked_item_ids that is a str, whose
\* characters are taken as identifiers
C13_OnlyMissingFieldsDefault ==
    (/\ ret.fn = "pick"
     /\ arg.n > 0
     /\ arg.provider = ProviderOk
     /\ MalformedMessage \/ MalformedIds)
    => IF \/ arg.reply.kind \in {"invalid", "nonobject"}
          \/ arg.reply.msg_kind = "nonstr"
          \/ arg.reply.ids_kind = "noniterable"
       THEN ret.status = "raise"
            /\ ret.exc \in {"JSONDecodeError", "AttributeError", "TypeError"}
       ELSE /\ ret.status = "ok"
            /\ MalformedMessage => ret.friendly_response = <<>>
            /\ arg.reply.ids_kind = "missing" => ret.picked_item_ids = <<>>
            /\ (arg.reply.ids_kind = "str" /\ arg.n >= 2) => ret.picked_item_ids = <<1, 2>>

\* the response is a stream
Streaming == ret.fn # "none" /\ ret.response.kind = "stream"

\* place of an event kind in the order of the protocol
EventRank(event) ==
    CASE event = "assistant_message" -> 1
      [] event = "selected_item_ids" -> 2
      [] event = "candidate_item_ids" -> 3
      [] event = "done" -> 4
      [] OTHER -> 0

\* C14: the frames of a stream come in the order assistant_message (any
\* number), selected_item_ids, candidate_item_ids, done; each of the last
\* three comes once, right after the one before it, and a finished stream
\* ends with done
C14_StreamEventOrder ==
    Streaming =>
        LET f == ret.frames
            rank == [j \in 1..Len(f) |-> EventRank(f[j].event)]
        IN /\ \A j \in 1..Len(f) : rank[j] \in 1..4
           /\ \A j \in 1..(Len(f) - 1) : rank[j] <= rank[j + 1]
           /\ \A j \in 1..(Len(f) - 1) : rank[j] = rank[j + 1] => rank[j] = 1
           /\ \A j \in 1..Len(f) : rank[j] > 2 => (j > 1 /\ rank[j - 1] = rank[j] - 1)
           /\ ret.response.gen.pc = "exhausted" =>
                 (Len(f) >= 3 /\ rank[Len(f)] = 4)
           /\ (Len(f) > 0 /\ rank[Len(f)] = 4) => ret.response.gen.pc = "exhausted"

\* a finished stream of three chunks and the three closing events
C14_Witness ==
    /\ Streaming
    /\ ret.response.gen.pc = "exhausted"
    /\ Len(ret.frames) = 6
    /\ ret.frames[3].event = "assistant_message"
    /\ ret.frames[6].event = "done"

\* json.loads of the inside of a JSON string
RECURSIVE JsonLoadsStr(_)
JsonLoadsStr(chars) ==
    IF chars = <<>> THEN <<>>
    ELSE IF Head(chars) = "\\"
    THEN <<IF chars[2] = "n" THEN "\n" ELSE chars[2]>> \o JsonLoadsStr(Tail(Tail(chars)))
    ELSE <<Head(chars)>> \o JsonLoadsStr(Tail(chars))

\* the chunks a consumer has read so far, decoded, in emission order
ChunksRead ==
    LET f == SelectSeq(ret.frames, LAMBDA e : e.event = "assistant_message")
    IN [j \in 1..Len(f) |-> JsonLoadsStr(f[j].data.chunk)]

RECURSIVE Concat(_)
Concat(texts) == IF texts = <<>> THEN <<>> ELSE Head(texts) \o Concat(Tail(texts))

\* ceil(len / c)
CeilDiv(len, c) == (len + c - 1) \div c

\* C15: a stream of a message of length L gives chunks of at most 80
\* characters whose concatenation, in emission order, is the part of the
\* message sent so far; once the chunks are through there are ceil(L / 80)
\* of them (none for L = 0) and the concatenation is the message
C15_ChunksRebuildMessage ==
    (Streaming /\ arg.fn = "assistant_stream" /\ ret.fn = "assistant_stream") =>
        LET message == ret.response.gen.message
            chunks == ChunksRead
            sent == IF 80 * Len(chunks) < Len(message) THEN 80 * Len(chunks) ELSE Len(message)
        IN /\ \A j \in 1..Len(chunks) : Len(chunks[j]) \in 1..80
           /\ Concat(chunks) = SubSeq(message, 1, sent)
           /\ Len(chunks) <= CeilDiv(Len(message), 80)
           /\ Len(ret.frames) > Len(chunks) =>
                 /\ Len(chunks) = CeilDiv(Len(message), 80)
                 /\ Concat(chunks) = message

\* the test's case: 201 characters, 3 chunks, the last of 41 characters
C15_Witness ==
    /\ Streaming
    /\ Len(ret.response.gen.message) = 201
    /\ Len(ret.frames) = 4
    /\ Len(ChunksRead) = 3
    /\ Len(ChunksRead[3]) = 41

\* the pipeline of a request failed: find_lost_items_with_ai raised
PipelineFailed == Requested /\ ret.fn # "none" /\ last.op = "find" /\ last.status = "raise"

\* C16: the streaming endpoint answers a failed pipeline with one 503 error
\* payload and no frame, whatever the step that failed; frames are sent only
\* of a stream made from the complete result find_lost_items_with_ai
\* returned
C16_NoFrameBeforeResult ==
    (arg.fn = "assistant_stream" /\ ret.fn = "assistant_stream") =>
        /\ PipelineFailed =>
              /\ ret.response.kind = "json"
              /\ ret.response.status = 503
              /\ DOMAIN ret.response.data = {"detail"}
              /\ ret.frames = <<>>
        /\ ret.frames # <<>> =>
              /\ FoundResult
              /\ ret.response.kind = "stream"
              /\ ret.response.status = 200
              /\ ret.response.gen.message = last.message
              /\ ret.response.gen.picked_ids = last.picked_item_ids
              /\ ret.response.gen.candidate_ids = last.candidate_item_ids

\* the reasoning call of a streaming request failed, after the cache fill
\* and the query embedding had gone through
C16_Witness ==
    /\ arg.fn = "assistant_stream"
    /\ PipelineFailed
    /\ arg.fail_at = "chat"
    /\ Embedded(items) # {}
    /\ Len(calls) >= 5
    /\ ret.frames = <<>>
    /\ ret.response.status = 503

\* C17: on both endpoints a failed pipeline gives 503; the detail is the
\* configuration message when no provider is configured and the generic
\* message for every other failure, and the two differ
C17_DistinctFailureOutcomes ==
    PipelineFailed =>
        /\ ret.response.kind = "json"
        /\ ret.response.status = 503
        /\ ret.response.data.detail =
              IF Unconfigured
              THEN
                    <<"O", "P", "E", "N", "A", "I", "_", "A", "P", "I", "_", "K", "E", "Y",
                      " ", "i", "s", " ", "n", "o", "t", " ", "c", "o", "n", "f", "i", "g",
                      "u", "r", "e", "d", ".">>
              ELSE
                    <<"T", "h", "e", " ", "a", "s", "s", "i", "s", "t", "a", "n", "t", " ",
                      "i", "s", " ", "c", "u", "r", "r", "e", "n", "t", "l", "y", " ", "u",
                      "n", "a", "v", "a", "i", "l", "a", "b", "l", "e", ".", " ", "P", "l",
                      "e", "a", "s", "e", " ", "t", "r", "y", " ", "a", "g", "a", "i", "n",
                      ".">>

\* C17, supporting check: the two outcomes are as C17 says for every
\* failure but one whose exception is a RuntimeError
C17_DistinctUnlessRuntimeError ==
    (PipelineFailed /\ (Unconfigured \/ last.exc \notin {"RuntimeError"})) =>
        /\ ret.response.status = 503
        /\ ret.response.data.detail = IF Unconfigured THEN NOT_CONFIGURED ELSE UNAVAILABLE
        /\ NOT_CONFIGURED # UNAVAILABLE

\* a provider step of the request raised
ProviderFailed == PipelineFailed /\ ~Unconfigured /\ arg.fail_at # "none"

\* C18: when a provider step raises, whatever the exception, both endpoints
\* answer 503 with the generic message and nothing of the exception's own
\* message, so that failures of different causes give the same response
C18_ProviderFailureNotExposed ==
    ProviderFailed =>
        /\ ret.response.status = 503
        /\ ret.response.data.detail =
              <<"T", "h", "e", " ", "a", "s", "s", "i", "s", "t", "a", "n", "t", " ",
                "i", "s", " ", "c", "u", "r", "r", "e", "n", "t", "l", "y", " ", "u",
                "n", "a", "v", "a", "i", "l", "a", "b", "l", "e", ".", " ", "P", "l",
                "e", "a", "s", "e", " ", "t", "r", "y", " ", "a", "g", "a", "i", "n",
                ".">>
        /\ ret.response.data.detail # last.message

\* C18, supporting check: the generic answer is given unless the exception
\* is a RuntimeError, whose message is the detail
C18_ExposedOnlyIfRuntimeError ==
    ProviderFailed =>
        /\ last.exc = arg.cause.ctor.cls \/ last.exc = arg.cause.call.cls
        /\ ret.response.data.detail =
              IF last.exc = "RuntimeError" THEN arg.cause.call.msg ELSE UNAVAILABLE

\* C19: when OpenAI(...) raises a proxy-related ValueError,
\* _get_openai_client builds the client a second time, with a transport
\* that does not trust the environment, and returns it; any other
\* ValueError is raised again after the one attempt
C19_ProxyFallback ==
    ret.fn = "client" =>
        /\ arg.ctor = NoExc =>
              (ret.status = "ok" /\ calls = <<[kind |-> "client", trust_env |-> TRUE]>>)
        /\ arg.ctor.cls = "ValueError" /\ arg.ctor.msg = ProxyError.msg =>
              /\ ret.status = "ok"
              /\ calls = <<[kind |-> "client", trust_env |-> TRUE],
                           [kind |-> "client", trust_env |-> FALSE]>>
        /\ arg.ctor.cls = "ValueError" /\ arg.ctor.msg # ProxyError.msg =>
              /\ ret.status = "raise"
              /\ ret.exc = "ValueError"
              /\ calls = <<[kind |-> "client", trust_env |-> TRUE]>>

\* C19, supporting check: the code makes one attempt and raises what the
\* constructor raised
C19_OneAttemptOnly ==
    ret.fn = "client" =>
        /\ calls = <<[kind |-> "client", trust_env |-> TRUE]>>
        /\ ret.status = IF arg.ctor = NoExc THEN "ok" ELSE "raise"
        /\ ret.exc = arg.ctor.cls

\* what a consumer rebuilds from the frames of a stream
Rebuilt ==
    LET selected == SelectSeq(ret.frames, LAMBDA e : e.event = "selected_item_ids")
        candidates == SelectSeq(ret.frames, LAMBDA e : e.event = "candidate_item_ids")
        ints(texts) == [j \in 1..Len(texts) |-> ParseInt(texts[j]).n]
    IN [message |-> Concat(ChunksRead),
        pickedItemIds |-> ints(selected[1].data.itemIds),
        candidateItemIds |-> ints(candidates[1].data.itemIds)]

\* C20: for one result, the payload of the atomic endpoint is the result's
\* message and identifier lists, and so is what a consumer rebuilds from the
\* finished stream, the identifier lists in the same order
C20_ModesCarrySameResult ==
    /\ (ret.fn = "assistant" /\ arg.fn = "assistant" /\ arg.result.status = "ok") =>
          ret.response.data = [message |-> arg.result.message,
                               pickedItemIds |-> arg.result.picked_item_ids,
                               candidateItemIds |-> arg.result.candidate_item_ids]
    /\ (Streaming /\ arg.fn = "assistant_stream" /\ ret.response.gen.pc = "exhausted") =>
          Rebuilt = LostItemAssistantPost(arg.result).data

\* a finished stream of a message json.dumps escapes and of identifier lists
\* that are not sorted
C20_Witness ==
    /\ Streaming
    /\ arg.fn = "assistant_stream"
    /\ ret.response.gen.pc = "exhausted"
    /\ arg.result.message = <<"a", "\n", "\"", "\\", "b">>
    /\ arg.result.picked_item_ids = <<105, -3, 0>>
    /\ Rebuilt.pickedItemIds = <<105, -3, 0>>

\* the kinds of the entries of a call log, in order
Kinds(log) == [i \in 1..Len(log) |-> log[i].kind]

IsPrefix(s, t) == Len(s) <= Len(t) /\ s = SubSeq(t, 1, Len(s))

\* the complete call logs of one request: with and without a cache fill
CallPlanWithFill == <<"client", "embed", "client", "embed", "client", "chat">>
CallPlanNoFill == <<"client", "embed", "client", "chat">>

\* a request went through find_lost_items_with_ai on a stored catalogue
FindOnCatalogue ==
    arg.fn \in {"assistant", "assistant_stream"} /\ last.op = "find" /\ last.reads = 1
        /\ items # <<>>

\* C28: within one find_lost_items_with_ai call on a non-empty catalogue the
\* provider calls are at most one embedding call for the cache fill, one
\* embedding call for the query alone, then at most one reasoning call, each
\* on a client built once; a step that raises is the last entry of the log,
\* is not made again, and its exception reaches the caller as raised
C28_ProviderCallOrder ==
    FindOnCatalogue =>
        LET embeds == SelectSeq(calls, LAMBDA c : c.kind = "embed")
            chats == SelectSeq(calls, LAMBDA c : c.kind = "chat")
            raised == IF arg.cause.ctor # NoExc THEN arg.cause.ctor ELSE arg.cause.call
        IN /\ IsPrefix(Kinds(calls), CallPlanWithFill) \/ IsPrefix(Kinds(calls), CallPlanNoFill)
           /\ Len(embeds) = 2 =>
                 /\ embeds[1].n <= max_items
                 /\ embeds[1].n <= Len(items)
                 /\ embeds[2] = [kind |-> "embed", n |-> 1]
           /\ last.status = "ok" =>
                 /\ Len(embeds) >= 1
                 /\ embeds[Len(embeds)] = [kind |-> "embed", n |-> 1]
                 /\ Len(chats) = (IF last.candidate_item_ids = <<>> THEN 0 ELSE 1)
                 /\ Len(calls) = 2 * (Len(embeds) + Len(chats))
           /\ (last.status = "raise" /\ arg.fail_at # "none") =>
                 /\ last.exc = raised.cls
                 /\ last.message = raised.msg
                 /\ calls[Len(calls)].kind =
                       IF arg.cause.ctor # NoExc THEN "client"
                       ELSE IF arg.fail_at = "chat" THEN "chat" ELSE "embed"
                 /\ arg.fail_at = "fill" => Len(embeds) <= 1 /\ chats = <<>>
                 /\ arg.fail_at = "query" => chats = <<>>

\* the query's embedding call fails after a cache fill of two items: two
\* embedding calls were made and no reasoning call
C28_Witness ==
    /\ FindOnCatalogue
    /\ last.status = "raise"
    /\ arg.fail_at = "query"
    /\ arg.cause.call # NoExc
    /\ calls = <<[kind |-> "client", trust_env |-> TRUE], [kind |-> "embed", n |-> 2],
                 [kind |-> "client", trust_env |-> TRUE], [kind |-> "embed", n |-> 1]>>

\* the table after k queries handled one after the other, each with a
\* provider that answers
RECURSIVE SequentialRun(_, _)
SequentialRun(db, k) ==
    IF k = 0 THEN db
    ELSE SequentialRun(EnsureItemEmbeddings(api_key, max_items, db, ProviderOk).items, k - 1)

\* every stored vector is the provider's vector for the row's content
ValidEmbeddings ==
    \A i \in 1..Len(items) :
        items[i].embedding \in {<<>>, EmbedVector(BuildItemText(items[i]))}

AllQueriesDone ==
    \A r \in Queries : requests[r].pc = "done" /\ requests[r].status = "ok"

\* C21: once concurrent queries on the same items have all finished (no
\* edits, a provider that answers), every stored embedding is empty or the
\* provider's vector for the item's content, and the table equals the one
\* left by handling the same queries one after the other
C21_EqualsSequentialRun ==
    AllQueriesDone =>
        /\ ValidEmbeddings
        /\ items = SequentialRun(arg.items, MaxQueries)

\* C21, as the code has it: every stored embedding is empty or the
\* provider's vector for the item's content at every moment; once the
\* queries have all finished the table equals the one left by handling some
\* of them, at least one, one after the other, and all of them when the
\* per-request cap covers the items that lacked an embedding
C21_EqualsRunOfSomeQueries ==
    /\ ValidEmbeddings
    /\ AllQueriesDone =>
          /\ \E k \in 1..MaxQueries : items = SequentialRun(arg.items, k)
          /\ Cardinality(Missing(arg.items)) <= max_items =>
                items = SequentialRun(arg.items, MaxQueries)

\* two queries computed and wrote the same item's embedding, and an item
\* that a second query alone would have filled is still without one
C21_Witness ==
    /\ AllQueriesDone
    /\ requests[1].items_to_embed # <<>>
    /\ requests[2].items_to_embed = requests[1].items_to_embed
    /\ items # SequentialRun(arg.items, MaxQueries)
    /\ items = SequentialRun(arg.items, 1)

\* the table without the embedding column
NonEmbedding(db) == [i \in 1..Len(db) |-> [db[i] EXCEPT !.embedding = <<>>]]

\* a step of find_lost_items_with_ai, or of sync_item_embedding inside an edit
CoreStep ==
    \/ \E r \in Queries : requests'[r] # requests[r]
    \/ /\ requests[TheEdit].pc \in {"sync", "sync_save"}
       /\ requests'[TheEdit] # requests[TheEdit]

\* C22: a step of the assistant core (find_lost_items_with_ai or
\* sync_item_embedding, ending well or with an exception) changes no column
\* of the Item table other than embedding and neither creates nor deletes a
\* row, also when an edit or a deletion of the same item runs between the
\* steps: the values the edit wrote stay.
C22_CoreWritesOnlyEmbedding ==
    [][CoreStep => NonEmbedding(items') = NonEmbedding(items)]_vars

\* the query's bulk_update ran while an edit of the same item was between
\* its save() and its end: the edit had loaded the item without a vector,
\* the table has the edit's title and the vector the query wrote
C22_Witness ==
    /\ requests[1].pc \in {"rank", "done"}
    /\ requests[TheEdit].pc \in {"tags", "sync"}
    /\ requests[TheEdit].instance.embedding = <<>>
    /\ \E j \in 1..Len(requests[1].items_to_embed) :
          LET obj == requests[1].items_to_embed[j]
          IN /\ RowOf(items, obj.id) # 0
             /\ items[RowOf(items, obj.id)].title = "phone"
             /\ obj.title # "phone"
             /\ obj.id = requests[TheEdit].instance.id
             /\ obj.embedding # <<>>
             /\ items[RowOf(items, obj.id)].embedding = obj.embedding

\* the row the edit was about, 0 when it is gone
EditedRow == RowOf(items, requests[TheEdit].instance.id)

\* the edit has returned and ran with no query in flight
EditRanAlone ==
    /\ requests[TheEdit].pc = "done" /\ requests[TheEdit].status = "ok"
    /\ requests[1].pc = "idle" \/ TheEdit \in requests[1].after
    /\ requests[TheDelete].pc = "idle"

\* a vector is fresh for a row: absent, or the provider's vector of the
\* row's content
Fresh(embedding, row) == embedding \in {<<>>, EmbedVector(BuildItemText(row))}

\* C23: after ItemSerializer.update has changed the title or the tags of an
\* item, the stored embedding is absent or the vector of the new content,
\* and a query that starts afterwards loads and ranks the item with such a
\* vector, whether the key is configured or not and whether the provider
\* call inside the edit succeeds or raises.
C23_EditInvalidatesEmbedding ==
    EditRanAlone =>
        /\ Fresh(items[EditedRow].embedding, items[EditedRow])
        /\ requests[1].pc = "done" /\ requests[1].status = "ok" =>
              \A i \in 1..Len(requests[1].all_items) :
                 requests[1].all_items[i].id = items[EditedRow].id =>
                    Fresh(requests[1].all_items[i].embedding, items[EditedRow])

\* what the code does: the vector is the new content's when the provider
\* call inside the edit succeeded, and stays as it was otherwise
C23_FreshOnlyIfSyncSucceeds ==
    EditRanAlone /\ requests[1].pc = "idle" =>
        IF requests[TheEdit].synced = "ok"
        THEN items[EditedRow].embedding = EmbedVector(BuildItemText(items[EditedRow]))
        ELSE items[EditedRow].embedding = arg.items[RowOf(arg.items, items[EditedRow].id)].embedding

\* the item of primary key id had no embedding in the query's snapshot: the
\* query filled it, or its loaded object still has none
MissingAtSnapshot(id) ==
    \E i \in 1..Len(requests[1].all_items) :
       /\ requests[1].all_items[i].id = id
       /\ \/ requests[1].all_items[i].embedding = <<>>
          \/ \E j \in 1..Len(requests[1].items_to_embed) :
                requests[1].items_to_embed[j].id = id

\* a query and an edit have both returned, every provider call of both
\* having succeeded
QueryAndEditDone ==
    /\ requests[1].pc = "done" /\ requests[1].status = "ok"
    /\ requests[TheEdit].pc = "done" /\ requests[TheEdit].status = "ok"
    /\ requests[TheEdit].synced = "ok"
    /\ requests[TheDelete].pc = "idle"

\* C29: when a query and an edit of an item that had no embedding in the
\* query's snapshot have both finished, in whatever order their statements
\* ran and with the provider configured and succeeding, the stored
\* embedding of the item is the vector of its current, edited content.
C29_EmbeddingOfEditedContent ==
    QueryAndEditDone /\ MissingAtSnapshot(requests[TheEdit].instance.id) =>
        items[EditedRow].embedding = EmbedVector(BuildItemText(items[EditedRow]))

\* what the code guarantees: the stored vector is the provider's vector of
\* the edited content or of the content the query had loaded
C29_EmbeddingOfSomeReadContent ==
    QueryAndEditDone /\ MissingAtSnapshot(requests[TheEdit].instance.id) =>
        \/ items[EditedRow].embedding = EmbedVector(BuildItemText(items[EditedRow]))
        \/ \E j \in 1..Len(requests[1].items_to_embed) :
              /\ requests[1].items_to_embed[j].id = items[EditedRow].id
              /\ items[EditedRow].embedding = requests[1].items_to_embed[j].embedding

\* C24: in every state the committed tables can be in, under any
\* interleaving of report requests, the comment is marked removed exactly
\* when it has more than COMMENT_REMOVE_THRESHOLD = 5 reports: with 5 or
\* fewer it is visible, and the report that makes the count 6 is published
\* together with the removal.
C24_RemovedIffOverThreshold ==
    comment.is_removed <=> CountReports(reports) > 5

\* six users have reported and been answered 201, the comment is removed,
\* and a seventh user, who has no report, was answered 400
C24_Witness ==
    /\ CountReports(reports) = 6
    /\ comment.is_removed
    /\ Cardinality({r \in ReportSlots : requests[r].status = 201}) = 6
    /\ \E r \in ReportSlots :
          /\ UserOf(r) # comment.user_id
          /\ reports[UserOf(r)] = 0
          /\ requests[r].status = 400

\* request r is answered in this step
Answered(r, status) == requests[r].status = 0 /\ requests'[r].status = status

\* C25: a report request answered 400 changes neither the CommentReport
\* table nor the comment; a request is answered 201 only if its user had no
\* report of the comment, is not the comment's author and the comment was
\* not removed, so the second report of a user, the author's report and a
\* report of a removed comment are all answered 400; and the table never
\* holds two reports of one user.
C25_RejectedReportChangesNothing ==
    [][/\ \A r \in ReportSlots :
            /\ Answered(r, 400) => reports' = reports /\ comment' = comment
            /\ Answered(r, 201) =>
                  /\ reports[UserOf(r)] = 0
                  /\ UserOf(r) # comment.user_id
                  /\ ~comment.is_removed
                  /\ reports'[UserOf(r)] = 1
            /\ requests'[r].status \in {0, 201, 400}
       /\ \A u \in 1..MaxUsers : reports'[u] <= 1]_vars

\* the two requests of one user have been answered, one 201 and the other
\* 400 as a duplicate, the author has been answered 400, and the table has
\* the one report
C25_Witness ==
    /\ {requests[MaxUsers].status, requests[MaxUsers + 1].status} = {201, 400}
    /\ \E r \in {MaxUsers, MaxUsers + 1} :
          requests[r].detail = "You have already reported this comment."
    /\ requests[comment.user_id].detail = "You cannot report your own comment."
    /\ reports[MaxUsers] = 1
    /\ CountReports(reports) = 1

\* the requests whose code was compared with the record's and found wrong
WrongChecked == {r \in Registers : requests[r].detail = "Invalid OTP."}

\* C30: under any interleaving of register requests with wrong codes for
\* one OTP record no increment is lost: attempt_count is the number of
\* wrong codes that were checked against the record, and that number never
\* exceeds REGISTRATION_OTP_MAX_ATTEMPTS.
C30_NoIncrementLost ==
    /\ otp_record.attempt_count = Cardinality(WrongChecked)
    /\ Cardinality(WrongChecked) <= max_attempts

\* what holds of requests handled one after another
C30_NoIncrementLostWithoutOverlap ==
    (\A r \in Registers : ~requests[r].overlapped) =>
        /\ otp_record.attempt_count = Cardinality(WrongChecked)
        /\ Cardinality(WrongChecked) <= max_attempts

\* C26: once REGISTRATION_OTP_MAX_ATTEMPTS wrong codes have been checked
\* against the record, its attempt_count is the maximum and it is marked
\* used, and from then on no request is answered 201 and no user is
\* created, whatever code it carries; a wrong code checked below the
\* maximum adds one to attempt_count and leaves the record unused.
C26_InvalidatedAfterMaxAttempts ==
    [][/\ Cardinality(WrongChecked) >= max_attempts =>
            /\ otp_record.attempt_count = max_attempts
            /\ otp_record.is_used
            /\ users' = users
            /\ \A r \in Registers : ~Answered(r, 201)
       /\ \A r \in Registers :
            /\ requests'[r].status \in {0, 201, 400}
            /\ Answered(r, 400) /\ requests'[r].detail = "Invalid OTP." =>
                  /\ otp_record'.attempt_count = otp_record.attempt_count + 1
                  /\ otp_record'.attempt_count < max_attempts =>
                        otp_record'.is_used = otp_record.is_used]_vars

\* the same, of requests handled one after another
C26_InvalidatedWithoutOverlap ==
    [][(\A r \in Registers : ~requests'[r].overlapped) =>
       /\ Cardinality(WrongChecked) >= max_attempts =>
            /\ otp_record.attempt_count = max_attempts
            /\ otp_record.is_used
            /\ users' = users
            /\ \A r \in Registers : ~Answered(r, 201)
       /\ \A r \in Registers :
            /\ requests'[r].status \in {0, 201, 400}
            /\ Answered(r, 400) /\ requests'[r].detail = "Invalid OTP." =>
                  /\ otp_record'.attempt_count = otp_record.attempt_count + 1
                  /\ otp_record'.attempt_count < max_attempts =>
                        otp_record'.is_used = otp_record.is_used]_vars

\* the maximum was reached by requests handled one after another, and a
\* request with the mailed code was then answered 400
C26_ReachedWithoutOverlap ==
    /\ \A r \in Registers : ~requests[r].overlapped
    /\ max_attempts = MaxAttempts
    /\ Cardinality(WrongChecked) = max_attempts
    /\ otp_record.is_used /\ ~otp_record.expired
    /\ \E r \in Registers : requests[r].otp = MailedOtp /\ requests[r].status = 400

Registered == {r \in Registers : requests[r].status = 201}

\* C27: under any interleaving of register requests for one email and one
\* OTP record at most one request is answered 201 and every other answered
\* request is answered 400; the User table has one user exactly when a
\* request was answered 201, never two users of the email; and whenever the
\* user exists the record is marked used (the two are committed together).
C27_AtMostOneRegistration ==
    /\ Len(users) <= 1
    /\ Cardinality(Registered) = Len(users)
    /\ users # <<>> => otp_record.is_used
    /\ \A r \in Registers : requests[r].status \in {0, 201, 400}

\* two requests carried the mailed code and both read the record unused;
\* one was answered 201, the other waited for the lock and was answered 400
C27_Witness ==
    /\ ~otp_record.expired
    /\ WrongChecked = {}
    /\ \E r, q \in Registers :
          /\ requests[r].status = 201
          /\ requests[q].status = 400
          /\ requests[q].otp = MailedOtp
          /\ requests[q].otp_record # <<>>
          /\ requests[q].detail = "OTP is invalid or expired."

====
